---- MODULE Spec2Model ----
(***************************************************************************)
(* A model of the coupe partitioning library: the composition layer        *)
(* (src/src/lib.rs), the multi-jagged partitioner                          *)
(* (src/src/algorithms/multi_jagged.rs), the Z-order quadtree              *)
(* (src/src/algorithms/z_curve.rs), the Hilbert curve                      *)
(* (src/src/algorithms/hilbert_curve.rs), balanced k-means                 *)
(* (src/src/algorithms/k_means.rs), the partition analysis                 *)
(* (src/src/analysis.rs) and the medit mesh format                         *)
(* (src/tools/mesh-io/src/medit/serializer.rs).                            *)
(*                                                                         *)
(* Weights are small naturals.  A threshold total * j / (num_splits + 1)   *)
(* is kept as the pair of its numerator and denominator and compared by    *)
(* cross-multiplication: for integer sums below 2^53 this is exactly the   *)
(* outcome of the f64 comparison of the source.                            *)
(***************************************************************************)
EXTENDS Integers, Sequences, FiniteSets, TLC

VARIABLES
    points,         \* the input points, a sequence of <<x, y>>
    weights,        \* the input weights, one per point
    nextPid,        \* the process-wide counter behind ProcessUniqueId::new()
    cKind,          \* Composition: "initial" (T: InitialPartition) or "improve"
    cFirst,         \* Composition.first
    cSecond,        \* Composition.second
    cInput,         \* the partition handed to Composition::improve_partition
    cIds,           \* the local `partition` of the Composition call
    cPc,            \* position in the Composition call
    config,         \* multi-jagged: the entry point called and its arguments
    scheme,         \* multi-jagged: partition_scheme of the running call
    callNo,         \* multi-jagged: number of calls started so far
    pc,             \* multi-jagged: "idle", "running", "returned" or "panicked"
    initial_id,     \* multi-jagged: the placeholder id of the running call
    partition,      \* multi-jagged: the output vector initial_partition
    tasks,          \* multi-jagged: pending calls of multi_jagged_2d_recurse
    leaves,         \* multi-jagged: leaf tasks inside their par_iter().for_each
    writes,         \* history: per output index, the leaf tasks that wrote it
    minted,         \* history: the set of ids minted so far
    mints,          \* history: the number of calls of ProcessUniqueId::new()
    prev,           \* history: outcome of the previous multi-jagged call
    pfInput,        \* prime_factors: the argument num_parts as u32
    pfN,            \* prime_factors: the local `n`
    pfCurrent,      \* prime_factors: the local `current`
    pfRet,          \* prime_factors: the local `ret`, then the value returned
    pfPc,           \* prime_factors: position in the function
    zMbr,           \* ZCurveQuadtree.mbr
    zHashes,        \* reorder: the local `with_hashes`
    zOut,           \* reorder: the pair (points, weights) returned
    zPc,            \* position in ZCurveQuadtree::new(..).reorder()
    hOrder,         \* encode: the argument `order`
    hX,             \* encode: the argument `x`, an i64 as the set of its 1 bits
    hY,             \* encode: the argument `y`
    hCode,          \* encode: the value returned
    hPc,            \* encode: "idle", "called" or "returned"
    hiOrder,        \* hilbert_index_computer: the argument `order`
    hiMap,          \* hilbert_index_computer: the captured x_mapping, y_mapping
    hiXY,           \* per point, the pair of i64 handed to encode
    hiIdx,          \* per point, the index returned by the closure
    hiPc,           \* "idle", "called", "built" or "mapped"
    infInfluences,  \* influence adaptation alone: `influences` before it
    infNewWeights,  \* influence adaptation alone: `new_weights`
    infTarget,      \* influence adaptation alone: `target_weight`
    infResult,      \* influence adaptation alone: `influences` after it
    infPc,          \* "idle", "called" or "returned"
    km_num_partitions, \* balanced_k_means: argument `num_partitions`
    epsilon,        \* balanced_k_means: argument
    delta_threshold,\* balanced_k_means: argument
    centers,        \* balanced_k_means_iter: `centers`
    center_ids,     \* balanced_k_means_iter: `center_ids`
    influences,     \* `influences` of the running function
    assignments,    \* `assignments` of the running function
    ubs,            \* `ubs` of the running function
    lbs,            \* `lbs` of the running function
    current_iter,   \* balanced_k_means_iter: `current_iter`
    sorted_centers, \* assign_and_balance: `centers` after sorted_by
    distances_to_mbr, \* assign_and_balance: `distances_to_mbr` after sorted_by
    target_weight,  \* assign_and_balance: `target_weight`
    inner_iter,     \* assign_and_balance: iterations of `for _ in 0..max_iter` done
    kmOut,          \* balanced_k_means: the value returned
    kmPc,           \* balanced k-means: position
    hSwept,         \* history: the points the last sweep evaluated
    hBalance,       \* history: the last `imbalance(..) < epsilon` test
    hAdapt,         \* history: the last influence adaptation
    hRelax,         \* history: the last call of relax_bounds
    hCalls,         \* history: calls of balanced_k_means_iter so far
    hDeltaMax,      \* history: the last `delta_max`
    anPartition,    \* analysis: the argument `partition`, one id per weight
    anOut,          \* analysis::weights: the vector returned
    anDiff,         \* imbalance_max_diff: the value returned
    anPc,           \* analysis: "idle", "called", "weighed" or "returned"
    mdText,         \* medit: the text parsed, a sequence of lines of tokens
    mdMesh,         \* medit: the Mesh the parser returned
    mdOut,          \* medit: the text Display wrote
    mdPc,           \* medit: "idle", "text", "parsed" or "written"
    spNumSplits,    \* split of one slab: the argument `num_splits`
    spPositions,    \* split of one slab: `split_positions`
    spParts,        \* split of one slab: the value of split_at_mut_many
    spPc            \* split of one slab: position in the `if let Some` branch

compVars == <<cKind, cFirst, cSecond, cInput, cIds, cPc>>
mjVars == <<config, scheme, callNo, pc, initial_id, partition, tasks, leaves,
            writes, minted, mints, prev>>
pfVars == <<pfInput, pfN, pfCurrent, pfRet, pfPc>>
zVars == <<zMbr, zHashes, zOut, zPc>>
encVars == <<hOrder, hX, hY, hCode, hPc>>
hiVars == <<hiOrder, hiMap, hiXY, hiIdx, hiPc>>
infVars == <<infInfluences, infNewWeights, infTarget, infResult, infPc>>
kmVars == <<km_num_partitions, epsilon, delta_threshold, centers, center_ids,
            influences, assignments, ubs, lbs, current_iter, sorted_centers,
            distances_to_mbr, target_weight, inner_iter, kmOut, kmPc, hSwept,
            hBalance, hAdapt, hRelax, hCalls, hDeltaMax>>
anVars == <<anPartition, anOut, anDiff, anPc>>
mdVars == <<mdText, mdMesh, mdOut, mdPc>>
spVars == <<spNumSplits, spPositions, spParts, spPc>>
vars == <<points, weights, nextPid, compVars, mjVars, pfVars, zVars, encVars,
          hiVars, infVars, kmVars, anVars, mdVars, spVars>>

(***************************************************************************)
(* Bounds of the model.                                                    *)
(***************************************************************************)
MaxPoints == 3
MaxCompPoints == 3
PointValues == {<<0, 1>>, <<1, 0>>}
WeightValues == {1, 2}

PointVectors(n) == [1..n -> PointValues]
WeightVectors(n) == [1..n -> WeightValues]

Range(s) == {s[i] : i \in DOMAIN s}

(***************************************************************************)
(* ProcessUniqueId::new(): a fresh identifier from a process-wide          *)
(* monotonic counter (spec 4.3).  The identifier minted is the value of    *)
(* nextPid; the counter moves by the number of identifiers minted.         *)
(***************************************************************************)
ProcessUniqueIdNew(counter) == counter

(***************************************************************************)
(* The composition layer.  InitialPartition::partition and                 *)
(* ImprovePartition::improve_partition are trait methods; the model draws  *)
(* the implementations from two small families that do not commute.        *)
(***************************************************************************)
InitialPartitioners == {"one_part", "per_point", "by_weight"}
Improvers == {"merge_all", "reverse", "heavy_to_first", "identity"}

\* a.partition(points, weights), minting from `base` on; returns the id vector
InitialPartition_partition(a, pts, w, base) ==
    CASE a = "one_part"  -> [i \in 1..Len(pts) |-> base]
      [] a = "per_point" -> [i \in 1..Len(pts) |-> base + i - 1]
      [] a = "by_weight" -> [i \in 1..Len(pts) |-> IF w[i] >= 2 THEN base + 1 ELSE base]

\* how many identifiers a.partition mints
InitialPartition_minted(a, pts) ==
    CASE a = "one_part"  -> 1
      [] a = "per_point" -> Len(pts)
      [] a = "by_weight" -> 2

\* b.improve_partition(points, weights, &mut partition): the vector it leaves
ImprovePartition_improve_partition(b, pts, w, ids) ==
    CASE b = "merge_all"      -> [i \in 1..Len(ids) |-> ids[1]]
      [] b = "reverse"        -> [i \in 1..Len(ids) |-> ids[Len(ids) + 1 - i]]
      [] b = "heavy_to_first" -> [i \in 1..Len(ids) |-> IF w[i] >= 2 THEN ids[1] ELSE ids[i]]
      [] b = "identity"       -> ids

\* Composition: the algorithm run by the first statement of the body
\* (lib.rs:522 for InitialPartition, lib.rs:542 for ImprovePartition) ...
CompositionRunsFirst(first, second) == first

\* a Composition that leaves out its second algorithm
CompositionRunsSecondNone(first, second) == "identity"

\* ... and by the second statement (lib.rs:523-524, lib.rs:543)
CompositionRunsSecond(first, second) == second

CompInit ==
    /\ cKind \in {"initial", "improve"}
    /\ cFirst \in (IF cKind = "initial" THEN InitialPartitioners ELSE Improvers)
    /\ cSecond \in Improvers
    /\ cInput \in (IF cKind = "initial" THEN {<<>>} ELSE [1..Len(points) -> 1..2])
    /\ cIds = cInput
    /\ cPc = "start"

CompIdle ==
    /\ cKind = "none" /\ cFirst = "none" /\ cSecond = "none"
    /\ cInput = <<>> /\ cIds = <<>> /\ cPc = "idle"

NoPrev == [status |-> "none", groups |-> {}]

PfIdle ==
    /\ pfInput = 0
    /\ pfN = 0
    /\ pfCurrent = 0
    /\ pfRet = <<>>
    /\ pfPc = "idle"

NoMbr == [xlo |-> 0, xhi |-> 0, ylo |-> 0, yhi |-> 0, scale |-> 1]

ZIdle ==
    /\ zMbr = NoMbr
    /\ zHashes = <<>>
    /\ zOut = [points |-> <<>>, weights |-> <<>>]
    /\ zPc = "idle"

EncIdle ==
    /\ hOrder = 0
    /\ hX = {}
    /\ hY = {}
    /\ hCode = {}
    /\ hPc = "idle"

NoMap == [built |-> FALSE]

HiIdle ==
    /\ hiOrder = 0
    /\ hiMap = NoMap
    /\ hiXY = <<>>
    /\ hiIdx = <<>>
    /\ hiPc = "idle"

InfIdle ==
    /\ infInfluences = <<>>
    /\ infNewWeights = <<>>
    /\ infTarget = 0
    /\ infResult = <<>>
    /\ infPc = "idle"

NoBalance == [tested |-> FALSE]
NoAdapt == [adapted |-> FALSE]
NoRelax == [relaxed |-> FALSE]

KmIdle ==
    /\ km_num_partitions = 0
    /\ epsilon = <<0, 1>>
    /\ delta_threshold = <<0, 1>>
    /\ centers = <<>>
    /\ center_ids = <<>>
    /\ influences = <<>>
    /\ assignments = <<>>
    /\ ubs = <<>>
    /\ lbs = <<>>
    /\ current_iter = 0
    /\ sorted_centers = <<>>
    /\ distances_to_mbr = <<>>
    /\ target_weight = <<0, 1>>
    /\ inner_iter = 0
    /\ kmOut = <<>>
    /\ kmPc = "idle"
    /\ hSwept = {}
    /\ hBalance = NoBalance
    /\ hAdapt = NoAdapt
    /\ hRelax = NoRelax
    /\ hCalls = 0
    /\ hDeltaMax = <<0, 1>>

AnIdle ==
    /\ anPartition = <<>>
    /\ anOut = <<>>
    /\ anDiff = 0
    /\ anPc = "idle"

NoMesh == [dimension |-> 0, coordinates |-> <<>>, node_refs |-> <<>>, topology |-> <<>>]

MdIdle ==
    /\ mdText = <<>>
    /\ mdMesh = NoMesh
    /\ mdOut = <<>>
    /\ mdPc = "idle"

NoSplit == [panic |-> FALSE, positions |-> <<>>]
NoParts == [panic |-> FALSE, parts |-> <<>>]

SpIdle ==
    /\ spNumSplits = 0
    /\ spPositions = NoSplit
    /\ spParts = NoParts
    /\ spPc = "idle"

MjIdle ==
    /\ config = "none" /\ scheme = <<>> /\ callNo = 0 /\ pc = "idle"
    /\ initial_id = 0 /\ partition = <<>> /\ tasks = {} /\ leaves = {}
    /\ writes = <<>> /\ minted = {} /\ mints = 0 /\ prev = NoPrev

\* impl InitialPartition for Composition: let mut partition = self.first.partition(..)
CompositionPartitionFirst ==
    /\ cPc = "start" /\ cKind = "initial"
    /\ cIds' = InitialPartition_partition(CompositionRunsFirst(cFirst, cSecond),
                                          points, weights, ProcessUniqueIdNew(nextPid))
    /\ nextPid' = nextPid + InitialPartition_minted(cFirst, points)
    /\ cPc' = "first_done"
    /\ UNCHANGED <<pfVars, zVars, encVars, hiVars, infVars, kmVars, anVars, mdVars, spVars, points, weights, cKind, cFirst, cSecond, cInput, mjVars>>

\* impl ImprovePartition for Composition: self.first.improve_partition(.., partition)
CompositionImproveFirst ==
    /\ cPc = "start" /\ cKind = "improve"
    /\ cIds' = ImprovePartition_improve_partition(CompositionRunsFirst(cFirst, cSecond),
                                                  points, weights, cIds)
    /\ cPc' = "first_done"
    /\ UNCHANGED <<pfVars, zVars, encVars, hiVars, infVars, kmVars, anVars, mdVars, spVars, points, weights, nextPid, cKind, cFirst, cSecond, cInput, mjVars>>

\* both impls: self.second.improve_partition(.., partition), then return
CompositionSecond ==
    /\ cPc = "first_done"
    /\ cIds' = ImprovePartition_improve_partition(CompositionRunsSecond(cFirst, cSecond),
                                                  points, weights, cIds)
    /\ cPc' = "done"
    /\ UNCHANGED <<pfVars, zVars, encVars, hiVars, infVars, kmVars, anVars, mdVars, spVars, points, weights, nextPid, cKind, cFirst, cSecond, cInput, mjVars>>

InitComp ==
    /\ \E n \in 0..MaxCompPoints :
          /\ points \in PointVectors(n)
          /\ weights \in WeightVectors(n)
    /\ nextPid = 0
    /\ CompInit
    /\ MjIdle
    /\ PfIdle
    /\ ZIdle
    /\ EncIdle
    /\ HiIdle
    /\ InfIdle
    /\ KmIdle
    /\ AnIdle
    /\ MdIdle
    /\ SpIdle

NextComp ==
    \/ CompositionPartitionFirst
    \/ CompositionImproveFirst
    \/ CompositionSecond

SpecComp == InitComp /\ [][NextComp]_vars

(***************************************************************************)
(* C1: when a Composition call returns, its id vector is exactly           *)
(* second.improve_partition applied to first.partition(points, weights)    *)
(* (for an initial partitioner first, minting from the counter the call    *)
(* started with) or to first.improve_partition of the vector handed in     *)
(* (for an improver first); between the two stages the vector is the       *)
(* first stage's result, and the inputs are untouched.                     *)
(***************************************************************************)
CompFirstResult(base) ==
    IF cKind = "initial"
    THEN InitialPartition_partition(cFirst, points, weights, base)
    ELSE ImprovePartition_improve_partition(cFirst, points, weights, cInput)

CompBase == IF cKind = "initial" THEN nextPid - InitialPartition_minted(cFirst, points)
            ELSE nextPid

C1_CompositionIsSequentialApplication ==
    /\ cPc = "first_done" => cIds = CompFirstResult(CompBase)
    /\ cPc = "done" =>
          cIds = ImprovePartition_improve_partition(cSecond, points, weights,
                                                    CompFirstResult(CompBase))

\* a finished composition of two improvers that do not commute, each of which
\* changed the vector
C1_Witness ==
    /\ cPc = "done"
    /\ cIds # CompFirstResult(CompBase)
    /\ cKind = "improve"
    /\ cIds # cInput
    /\ CompFirstResult(CompBase) # cInput
    /\ cIds # ImprovePartition_improve_partition(cFirst, points, weights,
                 ImprovePartition_improve_partition(cSecond, points, weights, cInput))

(***************************************************************************)
(* Multi-jagged (src/src/algorithms/multi_jagged.rs).                      *)
(* Point indices are 1-based here (0-based in the source); positions and   *)
(* the fields `low` and `idx` keep the source's 0-based values, so that    *)
(* permutation[idx] of the source is perm[idx + 1].                        *)
(***************************************************************************)
MaxLeaves == 3
MaxParts == 4
MaxIter == 2
NumCalls == 2

RECURSIVE SeqsUpTo(_, _)
SeqsUpTo(S, n) ==
    IF n = 0 THEN {<<>>}
    ELSE LET shorter == SeqsUpTo(S, n - 1)
         IN shorter \cup {Append(q, e) : q \in {r \in shorter : Len(r) = n - 1}, e \in S}

RECURSIVE Product(_)
Product(s) == IF s = <<>> THEN 1 ELSE s[1] * Product(Tail(s))

\* the number of leaf tasks of a recursion that splits num_splits times a level
Leaves(s) == Product([i \in 1..Len(s) |-> s[i] + 1])

\* the schemes of at most MaxLeaves leaf tasks
Schemes == {s \in SeqsUpTo(1..MaxLeaves, MaxLeaves) : Leaves(s) <= MaxLeaves}

\* is_prime(n): trial division by 2..=floor(sqrt(n))
is_prime(n) ==
    IF n < 2 THEN FALSE
    ELSE \A i \in 2..n : i * i <= n => n % i # 0

\* the iterator (2..).filter(is_prime): the first prime above `current`
RECURSIVE primes_next(_)
primes_next(current) ==
    IF is_prime(current + 1) THEN current + 1 ELSE primes_next(current + 1)

\* a push that puts the factor in front of the vector
PushFactorFront(ret, current) == <<current>> \o ret

\* prime_factors: ret.push(current)
PushFactor(ret, current) == Append(ret, current)

\* prime_factors(n): the loop `while n > 1`, from the state (n, current, ret)
RECURSIVE prime_factors_loop(_, _, _)
prime_factors_loop(n, current, ret) ==
    IF n > 1
    THEN IF n % current = 0
         THEN prime_factors_loop(n \div current, current, PushFactor(ret, current))
         ELSE prime_factors_loop(n, primes_next(current), ret)
    ELSE ret

prime_factors(n) ==
    IF n <= 1 THEN <<1>> ELSE prime_factors_loop(n, primes_next(1), <<>>)

\* partition_scheme(_points, num_parts): the points are ignored
partition_scheme(num_parts) == prime_factors(num_parts)

Coord(p, x_axis) == IF x_axis THEN points[p][1] ELSE points[p][2]

is_less_cmp_f64(a, b) == IF a < b THEN "Less" ELSE "Greater"

\* par_sort_by is a stable merge sort: an element passes another one only
\* when the comparison of the two says Less
RECURSIVE SortInsert(_, _, _)
SortInsert(sorted, e, x_axis) ==
    IF sorted = <<>> THEN <<e>>
    ELSE LET last == sorted[Len(sorted)]
         IN IF is_less_cmp_f64(Coord(e, x_axis), Coord(last, x_axis)) = "Less"
            THEN Append(SortInsert(SubSeq(sorted, 1, Len(sorted) - 1), e, x_axis), last)
            ELSE Append(sorted, e)

RECURSIVE axis_sort(_, _)
axis_sort(perm, x_axis) ==
    IF perm = <<>> THEN <<>>
    ELSE SortInsert(axis_sort(SubSeq(perm, 1, Len(perm) - 1), x_axis),
                    perm[Len(perm)], x_axis)

\* sum of weights[perm[i]] for the 1-based i in from..to
RECURSIVE SumWeights(_, _, _)
SumWeights(perm, from, to) ==
    IF from > to THEN 0 ELSE weights[perm[from]] + SumWeights(perm, from + 1, to)

RECURSIVE SortedSeq(_)
SortedSeq(S) ==
    IF S = {} THEN <<>>
    ELSE LET m == CHOOSE x \in S : \A y \in S : x <= y
         IN <<m>> \o SortedSeq(S \ {m})

\* The items of par_iter().enumerate().fold_with((usize::MAX, 0.), ..): one
\* (low, acc) per block the pool cut the slab into, `cut` being the 0-based
\* indices at which a new block starts.  An empty slab folds to the identity.
ScanBlocks(perm, cut) ==
    IF perm = <<>> THEN << [low |-> "usize::MAX", acc |-> 0] >>
    ELSE LET starts == SortedSeq({0} \cup cut)
         IN [b \in 1..Len(starts) |->
                [low |-> starts[b],
                 acc |-> SumWeights(perm, starts[b] + 1,
                                    IF b = Len(starts) THEN Len(perm) ELSE starts[b + 1])]]

Cuts(perm) == SUBSET (1..(Len(perm) - 1))

\* `'inner: loop`: consume blocks from the k-th on until one crosses threshold j
RECURSIVE InnerLoop(_, _, _, _, _, _)
InnerLoop(scan, k, sum, j, num_splits, total) ==
    IF k > Len(scan) THEN [panic |-> TRUE]
    ELSE IF (sum + scan[k].acc) * (num_splits + 1) > total * j
         THEN [panic |-> FALSE, low |-> scan[k].low, before |-> sum,
               sum |-> sum + scan[k].acc, next |-> k + 1]
         ELSE InnerLoop(scan, k + 1, sum + scan[k].acc, j, num_splits, total)

\* `for threshold in weight_thresholds.iter()`, from threshold j on
RECURSIVE ThresholdLoop(_, _, _, _, _, _, _, _)
ThresholdLoop(scan, j, num_splits, total, ret, cache, sum, k) ==
    IF j > num_splits THEN [panic |-> FALSE, ret |-> ret, cache |-> cache]
    ELSE IF sum * (num_splits + 1) > total * j
         THEN ThresholdLoop(scan, j + 1, num_splits, total,
                            Append(ret, ret[Len(ret)]),
                            Append(cache, cache[Len(cache)]), sum, k)
         ELSE LET r == InnerLoop(scan, k, sum, j, num_splits, total)
              IN IF r.panic THEN [panic |-> TRUE, ret |-> <<>>, cache |-> <<>>]
                 ELSE ThresholdLoop(scan, j + 1, num_splits, total,
                                    Append(ret, r.low), Append(cache, r.before),
                                    r.sum, r.next)

\* `while sum < threshold { idx += 1; sum += weights[permutation[idx]]; }`
\* the result is idx, or -1 when permutation[idx] is out of bounds
RECURSIVE Refine(_, _, _, _, _, _)
Refine(perm, idx, sum, j, num_splits, total) ==
    IF sum * (num_splits + 1) < total * j
    THEN IF idx + 1 >= Len(perm) THEN -1
         ELSE Refine(perm, idx + 1, sum + weights[perm[idx + 2]], j, num_splits, total)
    ELSE idx

compute_split_positions(perm, num_splits, cut) ==
    LET total == SumWeights(perm, 1, Len(perm))
        loop == ThresholdLoop(ScanBlocks(perm, cut), 1, num_splits, total,
                              <<>>, <<>>, 0, 1)
    IN IF loop.panic THEN [panic |-> TRUE, positions |-> <<>>]
       ELSE LET refined == [j \in 1..num_splits |->
                               Refine(perm, loop.ret[j], loop.cache[j], j,
                                      num_splits, total)]
            IN IF \E j \in 1..num_splits : refined[j] < 0
               THEN [panic |-> TRUE, positions |-> <<>>]
               ELSE [panic |-> FALSE, positions |-> refined]

\* the fold of split_at_mut_many; slice::split_at_mut panics when mid > len,
\* and *pos - drained_count below 0 overflows (a panic, or a huge mid)
RECURSIVE SplitFold(_, _, _, _, _)
SplitFold(acc_ret, acc_slice, drained_count, positions, i) ==
    IF i > Len(positions)
    THEN [panic |-> FALSE, parts |-> Append(acc_ret, acc_slice)]
    ELSE LET mid == positions[i] - drained_count
         IN IF mid < 0 \/ mid > Len(acc_slice)
            THEN [panic |-> TRUE, parts |-> <<>>]
            ELSE SplitFold(Append(acc_ret, SubSeq(acc_slice, 1, mid)),
                           SubSeq(acc_slice, mid + 1, Len(acc_slice)),
                           drained_count + mid, positions, i + 1)

\* a split_at_mut_many whose last statement pushes the whole slice, not the tail
split_at_mut_many_whole_tail(slice, positions) ==
    LET r == SplitFold(<<>>, slice, 0, positions, 1)
    IN IF r.panic THEN r
       ELSE [panic |-> FALSE,
             parts |-> [c \in DOMAIN r.parts |->
                           IF c = Len(r.parts) THEN slice ELSE r.parts[c]]]

split_at_mut_many(slice, positions) == SplitFold(<<>>, slice, 0, positions, 1)

\* the scheme MultiJagged::partition runs with: partition_scheme takes no
\* max_iter and the prime factors go to multi_jagged_2d_with_scheme as they are
MultiJaggedScheme(num_partitions, max_iter) == partition_scheme(num_partitions)

\* a leaf that labels its points with the id it finds in the output vector
LeafPartIdReused(counter, placeholder) == placeholder

\* multi_jagged_2d_recurse, `else` branch: let part_id = ProcessUniqueId::new()
LeafPartId(counter, placeholder) == ProcessUniqueIdNew(counter)

\* the grouping of the points by id: the id vector up to renaming of the ids
Grouping(ids) == {{i \in DOMAIN ids : ids[i] = p} : p \in Range(ids)}

\* a call of the public multi_jagged_2d_with_scheme ...
SchemeConfigs ==
    {[api |-> "with_scheme", scheme |-> s, num_partitions |-> 0, max_iter |-> 0] :
        s \in Schemes}

\* ... and a call of MultiJagged { num_partitions, max_iter }.partition
PartitionConfigs ==
    {[api |-> "MultiJagged", scheme |-> <<>>, num_partitions |-> k, max_iter |-> m] :
        k \in 1..MaxParts, m \in 1..MaxIter}

\* multi_jagged_2d_with_scheme up to the first call of multi_jagged_2d_recurse
\* (through MultiJagged::partition when the configuration names no scheme).
\* A later call of the process follows a call that returned: a panic is not
\* caught anywhere in the library and ends the calling thread.
MjStart ==
    /\ pc \in {"idle", "returned"}
    /\ callNo < NumCalls
    /\ callNo' = callNo + 1
    /\ prev' = [status |-> pc,
                groups |-> IF pc = "returned" THEN Grouping(partition) ELSE {}]
    /\ scheme' = IF config.api = "with_scheme" THEN config.scheme
                 ELSE MultiJaggedScheme(config.num_partitions, config.max_iter)
    /\ initial_id' = ProcessUniqueIdNew(nextPid)
    /\ nextPid' = nextPid + 1
    /\ minted' = minted \cup {initial_id'}
    /\ mints' = mints + 1
    /\ partition' = [i \in 1..Len(points) |-> initial_id']
    /\ tasks' = {[path |-> <<>>, perm |-> [i \in 1..Len(points) |-> i],
                  x_axis |-> TRUE, level |-> 0]}
    /\ leaves' = {}
    /\ writes' = [i \in 1..Len(points) |-> <<>>]
    /\ pc' = "running"
    /\ UNCHANGED <<pfVars, zVars, encVars, hiVars, infVars, kmVars, anVars, mdVars, spVars, points, weights, config, compVars>>

\* multi_jagged_2d_recurse, `if let Some(num_splits)` branch, for the blocks `cut`
RecurseSplit(t, cut) ==
    LET sorted == axis_sort(t.perm, t.x_axis)
        sp == compute_split_positions(sorted, scheme[t.level + 1], cut)
    IN IF sp.panic THEN [panic |-> TRUE, parts |-> <<>>]
       ELSE split_at_mut_many(sorted, sp.positions)

MjRecurseSplit ==
    /\ pc = "running"
    /\ \E t \in tasks :
         /\ t.level < Len(scheme)
         /\ \E cut \in Cuts(t.perm) :
              LET r == RecurseSplit(t, cut)
              IN /\ ~r.panic
                 /\ tasks' = (tasks \ {t}) \cup
                        {[path |-> Append(t.path, c), perm |-> r.parts[c],
                          x_axis |-> ~t.x_axis, level |-> t.level + 1] :
                            c \in 1..Len(r.parts)}
    /\ UNCHANGED <<pfVars, zVars, encVars, hiVars, infVars, kmVars, anVars, mdVars, spVars, points, weights, nextPid, config, scheme, callNo, pc, initial_id,
                   partition, leaves, writes, minted, mints, prev, compVars>>

\* the same branch when scan.next().unwrap(), permutation[idx] or split_at_mut
\* panics: the call unwinds, initial_partition is dropped and nothing is returned
MjRecursePanic ==
    /\ pc = "running"
    /\ \E t \in tasks :
         /\ t.level < Len(scheme)
         /\ \E cut \in Cuts(t.perm) : RecurseSplit(t, cut).panic
    /\ pc' = "panicked"
    /\ tasks' = {}
    /\ leaves' = {}
    /\ partition' = <<>>
    /\ writes' = <<>>
    /\ UNCHANGED <<pfVars, zVars, encVars, hiVars, infVars, kmVars, anVars, mdVars, spVars, points, weights, nextPid, config, scheme, callNo, initial_id,
                   minted, mints, prev, compVars>>

\* `else` branch: mint part_id and enter permutation.par_iter().for_each
MjLeafMint ==
    /\ pc = "running"
    /\ \E t \in tasks :
         /\ t.level = Len(scheme)
         /\ LET part_id == LeafPartId(nextPid, initial_id)
            IN /\ minted' = minted \cup {part_id}
               /\ leaves' = IF t.perm = <<>> THEN leaves
                             ELSE leaves \cup {[path |-> t.path, part_id |-> part_id,
                                                todo |-> Range(t.perm)]}
         /\ tasks' = tasks \ {t}
    /\ nextPid' = nextPid + 1
    /\ mints' = mints + 1
    /\ UNCHANGED <<pfVars, zVars, encVars, hiVars, infVars, kmVars, anVars, mdVars, spVars, points, weights, config, scheme, callNo, pc, initial_id,
                   partition, writes, prev, compVars>>

\* one iteration of the for_each: std::ptr::write(ptr.add(*idx), part_id)
MjLeafWrite ==
    /\ pc = "running"
    /\ \E l \in leaves : \E idx \in l.todo :
         /\ partition' = [partition EXCEPT ![idx] = l.part_id]
         /\ writes' = [writes EXCEPT ![idx] = Append(@, l.path)]
         /\ leaves' = IF l.todo = {idx} THEN leaves \ {l}
                       ELSE (leaves \ {l}) \cup {[l EXCEPT !.todo = @ \ {idx}]}
    /\ UNCHANGED <<pfVars, zVars, encVars, hiVars, infVars, kmVars, anVars, mdVars, spVars, points, weights, nextPid, config, scheme, callNo, pc, initial_id,
                   tasks, minted, mints, prev, compVars>>

\* every task joined: multi_jagged_2d_with_scheme returns initial_partition
MjReturn ==
    /\ pc = "running"
    /\ tasks = {}
    /\ leaves = {}
    /\ pc' = "returned"
    /\ UNCHANGED <<pfVars, zVars, encVars, hiVars, infVars, kmVars, anVars, mdVars, spVars, points, weights, nextPid, config, scheme, callNo, initial_id,
                   partition, tasks, leaves, writes, minted, mints, prev, compVars>>

MjInit(configs) ==
    /\ \E n \in 0..MaxPoints :
          /\ points \in PointVectors(n)
          /\ weights \in WeightVectors(n)
    /\ nextPid = 0
    /\ CompIdle
    /\ PfIdle
    /\ ZIdle
    /\ EncIdle
    /\ HiIdle
    /\ InfIdle
    /\ KmIdle
    /\ AnIdle
    /\ MdIdle
    /\ SpIdle
    /\ config \in configs
    /\ scheme = <<>>
    /\ callNo = 0
    /\ pc = "idle"
    /\ initial_id = 0
    /\ partition = <<>>
    /\ tasks = {}
    /\ leaves = {}
    /\ writes = <<>>
    /\ minted = {}
    /\ mints = 0
    /\ prev = NoPrev

NextMJ ==
    \/ MjStart
    \/ MjRecurseSplit
    \/ MjRecursePanic
    \/ MjLeafMint
    \/ MjLeafWrite
    \/ MjReturn

InitMJ == MjInit(SchemeConfigs)
InitMJP == MjInit(PartitionConfigs)

SpecMJ == InitMJ /\ [][NextMJ]_vars
SpecMJP == InitMJP /\ [][NextMJ]_vars

(***************************************************************************)
(* C2: while a call of multi_jagged_2d_with_scheme runs no output index    *)
(* has been written twice, and when it returns the output has one id per   *)
(* point, every index was written exactly once, by a leaf task of the      *)
(* recursion, and none holds the placeholder id.                           *)
(***************************************************************************)
C2_EachIndexWrittenByOneLeaf ==
    /\ pc = "running" => \A i \in DOMAIN writes : Len(writes[i]) <= 1
    /\ pc = "returned" =>
          /\ Len(partition) = Len(points)
          /\ \A i \in 1..Len(points) :
                /\ Len(writes[i]) = 1
                /\ Len(writes[i][1]) = Len(scheme)
                /\ partition[i] # initial_id

\* a returned call in which two sibling leaves wrote the output
C2_Witness ==
    /\ pc = "returned"
    /\ scheme # <<>>
    /\ \E i, j \in 1..Len(points) : writes[i] # writes[j]

(***************************************************************************)
(* C3: every call of ProcessUniqueId::new() so far returned an id no       *)
(* other call returned, in this multi-jagged call or an earlier one; the   *)
(* ids of two different leaves differ, and a leaf's id is never the        *)
(* placeholder.                                                            *)
(***************************************************************************)
C3_PidsNeverCollide ==
    /\ Cardinality(minted) = mints
    /\ \A l \in leaves : l.part_id # initial_id
    /\ \A l1, l2 \in leaves : l1.path # l2.path => l1.part_id # l2.part_id
    /\ \A i, j \in DOMAIN partition :
          /\ writes[i] # <<>> => partition[i] # initial_id
          /\ (writes[i] # <<>> /\ writes[j] # <<>> /\ writes[i] # writes[j])
                => partition[i] # partition[j]

\* a second call whose leaves minted while others were still writing
C3_Witness ==
    /\ callNo = 2
    /\ pc = "running"
    /\ Cardinality(leaves) >= 2
    /\ mints >= 5

(***************************************************************************)
(* C4: at every level a sub-slab is split into exactly scheme[level]       *)
(* slabs, and a returned output holds at most the product of the scheme's  *)
(* entries distinct ids.                                                   *)
(***************************************************************************)
C4_AtMostProductOfScheme ==
    /\ \A t \in tasks : \A d \in 1..Len(t.path) : t.path[d] <= scheme[d]
    /\ pc = "returned" => Cardinality(Range(partition)) <= Product(scheme)

(***************************************************************************)
(* C5: MultiJagged { num_partitions: k } on n points of uniform weight     *)
(* with pairwise distinct x and pairwise distinct y, k dividing n, does    *)
(* not panic and returns k parts of n / k points each.                     *)
(***************************************************************************)
C5_Case ==
    /\ config.api = "MultiJagged"
    /\ Len(points) > 0
    /\ Len(points) % config.num_partitions = 0
    /\ \A i, j \in 1..Len(points) :
          /\ weights[i] = weights[j]
          /\ i # j => points[i][1] # points[j][1] /\ points[i][2] # points[j][2]

C5_UniformPartsAreEven ==
    C5_Case =>
       /\ pc # "panicked"
       /\ pc = "returned" =>
             /\ Cardinality(Grouping(partition)) = config.num_partitions
             /\ \A g \in Grouping(partition) :
                   Cardinality(g) * config.num_partitions = Len(points)

C8_SameGroupingInEveryRun ==
    (pc = "returned" /\ prev.status = "returned") =>
       Grouping(partition) = prev.groups

(***************************************************************************)
(* prime_factors, statement by statement.  partition_scheme passes         *)
(* `num_parts as u32`; the inputs drawn here are below 2^32, where the     *)
(* cast changes nothing.                                                   *)
(***************************************************************************)
MaxK == 30

\* if n <= 1 { return vec![1]; }  let mut ret = vec![]; current = primes.next()
PfEnter ==
    /\ pfPc = "entry"
    /\ IF pfN <= 1
       THEN /\ pfRet' = <<1>>
            /\ pfPc' = "done"
            /\ UNCHANGED pfCurrent
       ELSE /\ pfRet' = <<>>
            /\ pfCurrent' = primes_next(1)
            /\ pfPc' = "outer"
    /\ UNCHANGED <<pfInput, pfN, points, weights, nextPid, compVars, mjVars, zVars, encVars, hiVars, infVars, kmVars, anVars, mdVars, spVars>>

\* while n > 1 {
PfOuter ==
    /\ pfPc = "outer"
    /\ pfPc' = IF pfN > 1 THEN "inner" ELSE "done"
    /\ UNCHANGED <<pfInput, pfN, pfCurrent, pfRet, points, weights, nextPid,
                   compVars, mjVars, zVars, encVars, hiVars, infVars, kmVars, anVars, mdVars, spVars>>

\* while n % current == 0 { ret.push(current); n /= current; }
PfInnerDivide ==
    /\ pfPc = "inner"
    /\ pfN % pfCurrent = 0
    /\ pfRet' = PushFactor(pfRet, pfCurrent)
    /\ pfN' = pfN \div pfCurrent
    /\ UNCHANGED <<pfInput, pfCurrent, pfPc, points, weights, nextPid,
                   compVars, mjVars, zVars, encVars, hiVars, infVars, kmVars, anVars, mdVars, spVars>>

\* current = primes.next().unwrap();
PfNextPrime ==
    /\ pfPc = "inner"
    /\ pfN % pfCurrent # 0
    /\ pfCurrent' = primes_next(pfCurrent)
    /\ pfPc' = "outer"
    /\ UNCHANGED <<pfInput, pfN, pfRet, points, weights, nextPid,
                   compVars, mjVars, zVars, encVars, hiVars, infVars, kmVars, anVars, mdVars, spVars>>

InitPF ==
    /\ points = <<>>
    /\ weights = <<>>
    /\ nextPid = 0
    /\ CompIdle
    /\ MjIdle
    /\ ZIdle
    /\ EncIdle
    /\ HiIdle
    /\ InfIdle
    /\ KmIdle
    /\ AnIdle
    /\ MdIdle
    /\ SpIdle
    /\ pfInput \in 0..MaxK
    /\ pfN = pfInput
    /\ pfCurrent = 0
    /\ pfRet = <<>>
    /\ pfPc = "entry"

NextPF ==
    \/ PfEnter
    \/ PfOuter
    \/ PfInnerDivide
    \/ PfNextPrime

\* the function runs on one thread and nothing stops it between statements
SpecPF == InitPF /\ [][NextPF]_vars /\ WF_vars(NextPF)

MaxZPoints == 3
MaxDepth == 3
ZPointValues == {<<0, 0>>, <<1, 0>>, <<3, 0>>, <<0, 3>>, <<3, 3>>}

MinOf(S) == CHOOSE m \in S : \A x \in S : m <= x
MaxOf(S) == CHOOSE m \in S : \A x \in S : x <= m

Mbr2D_from_points(pts) ==
    [xlo |-> MinOf({pts[i][1] : i \in DOMAIN pts}),
     xhi |-> MaxOf({pts[i][1] : i \in DOMAIN pts}),
     ylo |-> MinOf({pts[i][2] : i \in DOMAIN pts}),
     yhi |-> MaxOf({pts[i][2] : i \in DOMAIN pts}),
     scale |-> 1]

\* the quadrant of the box a point of the box lies in, by comparison with
\* the centre; a point on a centre line counts as right, or top
Mbr2D_quadrant(mbr, p) ==
    LET right == 2 * p[1] * mbr.scale >= mbr.xlo + mbr.xhi
        top == 2 * p[2] * mbr.scale >= mbr.ylo + mbr.yhi
    IN IF top THEN (IF right THEN "TopRight" ELSE "TopLeft")
       ELSE (IF right THEN "BottomRight" ELSE "BottomLeft")

Mbr2D_sub_mbr(mbr, q) ==
    LET left == q \in {"BottomLeft", "TopLeft"}
        bottom == q \in {"BottomLeft", "BottomRight"}
    IN [xlo |-> IF left THEN 2 * mbr.xlo ELSE mbr.xlo + mbr.xhi,
        xhi |-> IF left THEN mbr.xlo + mbr.xhi ELSE 2 * mbr.xhi,
        ylo |-> IF bottom THEN 2 * mbr.ylo ELSE mbr.ylo + mbr.yhi,
        yhi |-> IF bottom THEN mbr.ylo + mbr.yhi ELSE 2 * mbr.yhi,
        scale |-> 2 * mbr.scale]

\* the mapping of the module documentation
QuadrantIndex(q) ==
    CASE q = "BottomLeft" -> 0
      [] q = "BottomRight" -> 1
      [] q = "TopLeft" -> 2
      [] q = "TopRight" -> 3

\* `h << s` on u32: the s highest bits are lost
Shl(h, s) == (h % (2 ^ (32 - s))) * (2 ^ s)

\* the hash handed down to a quadrant: `current_hash << 2` for BottomLeft
\* and TopLeft, `current_hash << (2 + 0b01)` for BottomRight and TopRight
quadrant_hash(current_hash, q) ==
    IF q \in {"BottomLeft", "TopLeft"}
    THEN Shl(current_hash, 2)
    ELSE Shl(current_hash, 2 + 1)

\* new_hash = previous_hash << 2 + b of the module documentation, along the
\* quadrants a point went through
RECURSIVE HashOfPath(_)
HashOfPath(path) ==
    IF path = <<>> THEN 0
    ELSE Shl(HashOfPath(SubSeq(path, 1, Len(path) - 1)), 2) + path[Len(path)]

(***************************************************************************)
(* compute_hashes_impl.  An entry is a (point, weight, hash) of the        *)
(* source together with `path`, a history field: the indices of the        *)
(* quadrants the point was put in, outermost first.  A recursion deeper    *)
(* than MaxDepth is reported as `overflow`: points of ZPointValues that    *)
(* differ are apart by MaxDepth, so only equal points get there, and the   *)
(* source recurses on them without end.                                    *)
(***************************************************************************)
RECURSIVE compute_hashes_impl(_, _, _, _)
compute_hashes_impl(mbr, entries, current_hash, depth) ==
    LET InQuadrant(q) ==
            SelectSeq(entries, LAMBDA e : Mbr2D_quadrant(mbr, e.point) = q)
        Sub(q) ==
            LET sel == InQuadrant(q)
                h == quadrant_hash(current_hash, q)
                tagged == [i \in 1..Len(sel) |->
                              [sel[i] EXCEPT !.path = Append(@, QuadrantIndex(q))]]
            IN IF Len(sel) > 1
               THEN IF depth >= MaxDepth
                    THEN [overflow |-> TRUE, out |-> <<>>]
                    ELSE compute_hashes_impl(Mbr2D_sub_mbr(mbr, q), tagged, h, depth + 1)
               ELSE [overflow |-> FALSE,
                     out |-> [i \in 1..Len(tagged) |->
                                 [tagged[i] EXCEPT !.hash = h]]]
        bottom_lefts == Sub("BottomLeft")
        bottom_rights == Sub("BottomRight")
        top_lefts == Sub("TopLeft")
        top_rights == Sub("TopRight")
    IN IF \/ bottom_lefts.overflow
          \/ bottom_rights.overflow
          \/ top_lefts.overflow
          \/ top_rights.overflow
       THEN [overflow |-> TRUE, out |-> <<>>]
       ELSE [overflow |-> FALSE,
             out |-> bottom_lefts.out \o bottom_rights.out
                        \o top_lefts.out \o top_rights.out]

compute_hashes(mbr, pts, w) ==
    compute_hashes_impl(mbr,
                        [i \in DOMAIN pts |->
                            [point |-> pts[i], weight |-> w[i], hash |-> 0, path |-> <<>>]],
                        0, 0)

IndexPermutations(n) == {f \in [1..n -> 1..n] : \A i, j \in 1..n : f[i] = f[j] => i = j}

\* par_sort_unstable_by_key: the slice comes out ordered by key; the order
\* of elements of equal keys is left open by the sort
par_sort_unstable_by_key(slice) ==
    {[i \in DOMAIN slice |-> slice[f[i]]] : f \in
        {g \in IndexPermutations(Len(slice)) :
            \A i \in 1..(Len(slice) - 1) : slice[g[i]].hash <= slice[g[i + 1]].hash}}

\* ZCurveQuadtree::new(points, weights)
ZCurveQuadtreeNew ==
    /\ zPc = "idle"
    /\ zMbr' = Mbr2D_from_points(points)
    /\ zPc' = "new"
    /\ UNCHANGED <<zHashes, zOut, points, weights, nextPid, compVars, mjVars, pfVars, encVars, hiVars, infVars, kmVars, anVars, mdVars, spVars>>

\* ZCurveQuadtree::reorder(self)
ZCurveQuadtreeReorder ==
    /\ zPc = "new"
    /\ LET with_hashes == compute_hashes(zMbr, points, weights)
       IN IF with_hashes.overflow
          THEN /\ zPc' = "overflow"
               /\ UNCHANGED <<zHashes, zOut>>
          ELSE \E sorted \in par_sort_unstable_by_key(with_hashes.out) :
                  /\ zHashes' = sorted
                  /\ zOut' = [points |-> [i \in DOMAIN sorted |-> sorted[i].point],
                              weights |-> [i \in DOMAIN sorted |-> sorted[i].weight]]
                  /\ zPc' = "returned"
    /\ UNCHANGED <<zMbr, points, weights, nextPid, compVars, mjVars, pfVars, encVars, hiVars, infVars, kmVars, anVars, mdVars, spVars>>

InitZ ==
    /\ \E n \in 1..MaxZPoints :
          /\ points \in [1..n -> ZPointValues]
          /\ weights \in WeightVectors(n)
    /\ nextPid = 0
    /\ CompIdle
    /\ MjIdle
    /\ PfIdle
    /\ ZIdle
    /\ EncIdle
    /\ HiIdle
    /\ InfIdle
    /\ KmIdle
    /\ AnIdle
    /\ MdIdle
    /\ SpIdle

NextZ ==
    \/ ZCurveQuadtreeNew
    \/ ZCurveQuadtreeReorder

SpecZ == InitZ /\ [][NextZ]_vars

(***************************************************************************)
(* C9: the hash of a point is built from 0 by new_hash =                   *)
(* (previous_hash << 2) | b along the quadrants b it was put in, and two   *)
(* points put in different quadrants at some split have different hashes.  *)
(***************************************************************************)
C9_HashIsShiftOrChildIndex ==
    zPc = "returned" =>
       \A i, j \in DOMAIN zHashes :
          /\ zHashes[i].hash = HashOfPath(zHashes[i].path)
          /\ zHashes[i].path # zHashes[j].path => zHashes[i].hash # zHashes[j].hash

(***************************************************************************)
(* C10: reorder returns the input (point, weight) pairs, each as many      *)
(* times as it came in, ordered by non-decreasing hash, and at every       *)
(* level of the quadtree the points of BottomLeft come before those of     *)
(* BottomRight, then TopLeft, then TopRight.                               *)
(***************************************************************************)
PathBefore(a, b) ==
    \E d \in 1..Len(a) :
       /\ d <= Len(b)
       /\ a[d] < b[d]
       /\ \A e \in 1..(d - 1) : a[e] = b[e]

C10_ReorderIsZOrderPermutation ==
    zPc = "returned" =>
       /\ Len(zOut.points) = Len(points)
       /\ Len(zOut.weights) = Len(points)
       /\ \A pv \in ZPointValues \X WeightValues :
             Cardinality({i \in DOMAIN points : <<points[i], weights[i]>> = pv})
                = Cardinality({i \in DOMAIN points :
                                 <<zOut.points[i], zOut.weights[i]>> = pv})
       /\ \A i \in 1..(Len(zHashes) - 1) : zHashes[i].hash <= zHashes[i + 1].hash
       /\ \A i, j \in DOMAIN zHashes :
             i < j => ~PathBefore(zHashes[j].path, zHashes[i].path)

(***************************************************************************)
(* C11: two points of equal curve index come out of reorder in the order   *)
(* they came in.  (The Z-order half; a reorder that returns was given      *)
(* pairwise different points, so a point names its input index.)           *)
(***************************************************************************)
ZInputIndex(e) == CHOOSE i \in DOMAIN points : points[i] = e.point

C11_TiesKeepInputOrder ==
    zPc = "returned" =>
       \A i, j \in DOMAIN zHashes :
          (i < j /\ zHashes[i].hash = zHashes[j].hash)
             => ZInputIndex(zHashes[i]) < ZInputIndex(zHashes[j])

(***************************************************************************)
(* C29: the hash computation ends for every finite point set, coincident   *)
(* points included: the recursion stops once a sub-region holds at most    *)
(* one point, at a depth the 32-bit hash can encode (2 bits a level).      *)
(***************************************************************************)
C29_HashRecursionEnds ==
    /\ zPc # "overflow"
    /\ zPc = "returned" =>
          \A i \in DOMAIN zHashes : 2 * Len(zHashes[i].path) <= 32

(***************************************************************************)
(* The Hilbert encoder of hilbert_curve.rs.  An i64 is kept as the set of  *)
(* the positions of its bits that are 1, bit 0 the lowest and bit 63 the   *)
(* sign, so that `!`, `>>` and the cast `as i32` act as on the machine.    *)
(***************************************************************************)
I64Bits == 64
I32Bits == 32
MaxSmallOrder == 4
BigOrders == {31, 32}

BitIdx == 0..(I64Bits - 1)
BvZero == {}
\* every value of the loop is an i64: its bits are among the 64
IsI64(a) == a \subseteq BitIdx
BvAnd(a, b) == {i \in BitIdx : i \in a /\ i \in b}
BvOr(a, b) == {i \in BitIdx : i \in a \/ i \in b}
BvXor(a, b) == {i \in BitIdx : (i \in a) # (i \in b)}
BvNot(a) == {i \in BitIdx : i \notin a}
\* a shift by one to the left in place of the shift to the right
BvShl1(a) == {i \in BitIdx : i > 0 /\ (i - 1) \in a}
\* `a >> 1` on i64: the sign bit is copied in
BvShr1(a) ==
    {i \in BitIdx : IF i = I64Bits - 1 THEN i \in a ELSE (i + 1) \in a}
\* (1 << order) - 1, for order below 63
BvMask(order) == 0..(order - 1)
\* the i64 of a small natural, and of one set bit
BvOfNat(n) == {i \in 0..(I32Bits - 2) : (n \div (2 ^ i)) % 2 = 1}
BvBit(k) == {k}

\* a < b on i64
BvLess(a, b) ==
    LET diff == BvXor(a, b)
        top == CHOOSE i \in diff : \A j \in diff : j <= i
    IN /\ diff # {}
       /\ IF top = I64Bits - 1 THEN top \in a ELSE top \in b

\* odd.max(even)
BvMax(a, b) == IF BvLess(a, b) THEN b ELSE a

\* interleave_bits, the `while max > 0` loop: `max` is the low 32 bits of
\* odd.max(even) read as an i32; n counts the shifts that bring it to 0
BitLengthAsI32(v) ==
    LET low == v \cap (0..(I32Bits - 2))
    IN IF (I32Bits - 1) \in v \/ low = {} THEN 0
       ELSE 1 + (CHOOSE i \in low : \A j \in low : j <= i)

\* a variant of interleave_bits with the two streams exchanged
interleave_bits_swapped(odd, even) ==
    LET n == BitLengthAsI32(BvMax(odd, even))
    IN {2 * i : i \in odd \cap (0..(n - 1))}
          \cup {2 * i + 1 : i \in even \cap (0..(n - 1))}

\* interleave_bits: for i in 0..n, bit 2 * i of val is bit i of even and bit
\* 2 * i + 1 is bit i of odd (the terms added are distinct powers of two)
interleave_bits(odd, even) ==
    LET n == BitLengthAsI32(BvMax(odd, even))
    IN {2 * i : i \in even \cap (0..(n - 1))}
          \cup {2 * i + 1 : i \in odd \cap (0..(n - 1))}

\* encode, the loop `for _ in 1..order`, with `left` iterations to go
RECURSIVE encode_loop(_, _, _, _, _, _, _)
encode_loop(v0, v1, left, h_even, not_x, not_y, temp) ==
    IF left <= 0 THEN [v0 |-> v0, v1 |-> v1]
    ELSE LET new_v1 == BvShr1(BvOr(BvAnd(v1, h_even),
                                   BvAnd(BvXor(v0, not_y), temp)))
             new_v0 == BvShr1(BvOr(BvAnd(v0, BvXor(new_v1, not_x)),
                                   BvAnd(BvNot(v0), BvXor(new_v1, not_y))))
         IN IF IsI64(new_v1) /\ IsI64(new_v0)
            THEN encode_loop(new_v0, new_v1, left - 1, h_even, not_x, not_y, temp)
            ELSE [v0 |-> new_v0, v1 |-> new_v1]

encode(x, y, order) ==
    LET mask == BvMask(order)
        h_even == BvXor(x, y)
        not_x == BvAnd(BvNot(x), mask)
        not_y == BvAnd(BvNot(y), mask)
        temp == BvXor(not_x, y)
        v == encode_loop(BvZero, BvZero, order - 1, h_even, not_x, not_y, temp)
        h_odd == BvOr(BvAnd(BvNot(v.v0), BvXor(v.v1, x)),
                      BvAnd(v.v0, BvXor(v.v1, not_y)))
    IN interleave_bits(h_odd, h_even)

\* the coordinates drawn for an order: all of them for a small order, the
\* corners and the middle of the range for a large one
EncodeCoords(order) ==
    IF order <= MaxSmallOrder
    THEN {BvOfNat(n) : n \in 0..(2 ^ order - 1)}
    ELSE {BvZero, BvOfNat(1), BvBit(order - 1), BvMask(order)}

EncodeCall ==
    /\ hPc = "called"
    /\ hCode' = encode(hX, hY, hOrder)
    /\ hPc' = "returned"
    /\ UNCHANGED <<hOrder, hX, hY, points, weights, nextPid, compVars, mjVars,
                   pfVars, zVars, hiVars, infVars, kmVars, anVars, mdVars, spVars>>

InitEnc ==
    /\ points = <<>>
    /\ weights = <<>>
    /\ nextPid = 0
    /\ CompIdle
    /\ MjIdle
    /\ PfIdle
    /\ ZIdle
    /\ HiIdle
    /\ InfIdle
    /\ KmIdle
    /\ AnIdle
    /\ MdIdle
    /\ SpIdle
    /\ hOrder \in (1..MaxSmallOrder) \cup BigOrders
    /\ hX \in EncodeCoords(hOrder)
    /\ hY \in EncodeCoords(hOrder)
    /\ hCode = {}
    /\ hPc = "called"

NextEnc == EncodeCall

SpecEnc == InitEnc /\ [][NextEnc]_vars

(***************************************************************************)
(* The index of Liu and Schrack on words of `order` bits: NOT is taken on  *)
(* those bits, v0 and v1 come from order - 1 rounds, and bit 2 * i of the  *)
(* index is bit i of h_even, bit 2 * i + 1 is bit i of h_odd.              *)
(***************************************************************************)
LsNot(a, order) == {i \in BitIdx : i < order /\ i \notin a}

RECURSIVE LsRounds(_, _, _, _, _, _)
LsRounds(v0, v1, left, x, y, order) ==
    IF left <= 0 THEN [v0 |-> v0, v1 |-> v1]
    ELSE LET w1 == BvShr1(BvOr(BvAnd(v1, BvXor(x, y)),
                               BvAnd(BvXor(v0, LsNot(y, order)),
                                     BvXor(LsNot(x, order), y))))
             w0 == BvShr1(BvOr(BvAnd(v0, BvXor(w1, LsNot(x, order))),
                               BvAnd(LsNot(v0, order), BvXor(w1, LsNot(y, order)))))
         IN IF IsI64(w1) /\ IsI64(w0)
            THEN LsRounds(w0, w1, left - 1, x, y, order)
            ELSE [v0 |-> w0, v1 |-> w1]

LsIndex(x, y, order) ==
    LET v == LsRounds(BvZero, BvZero, order - 1, x, y, order)
        h_even == BvXor(x, y)
        h_odd == BvOr(BvAnd(LsNot(v.v0, order), BvXor(v.v1, x)),
                      BvAnd(v.v0, BvXor(v.v1, LsNot(y, order))))
    IN {2 * i : i \in h_even \cap (0..(order - 1))}
          \cup {2 * i + 1 : i \in h_odd \cap (0..(order - 1))}

(***************************************************************************)
(* C12, as stated: for every order >= 1 and 0 <= x, y < 2^order, encode    *)
(* returns the interleaving of h_odd and h_even of Liu and Schrack.        *)
(***************************************************************************)
C12_EncodeIsLiuSchrackEveryOrder ==
    hPc = "returned" => hCode = LsIndex(hX, hY, hOrder)

(***************************************************************************)
(* C12, amended: the same for every order from 1 to 31, where x and y are  *)
(* below 2^31.                                                             *)
(***************************************************************************)
C12_EncodeIsLiuSchrackUpTo31 ==
    (hPc = "returned" /\ hOrder <= I32Bits - 1) => hCode = LsIndex(hX, hY, hOrder)

\* order 31 with x = 2^30 and y = 0: the highest coordinate bit is in the index
C12_Witness ==
    /\ hPc = "returned"
    /\ hOrder = I32Bits - 1
    /\ hX = BvBit(I32Bits - 2)
    /\ hY = BvZero
    /\ (2 * (I32Bits - 2)) \in hCode

\* a + 1 and a - 1 on i64
BvInc(a) ==
    LET zeros == BitIdx \ a
        k == IF zeros = {} THEN I64Bits ELSE CHOOSE i \in zeros : \A j \in zeros : i <= j
    IN {i \in BitIdx : IF i < k THEN FALSE ELSE (i = k \/ i \in a)}
BvDec(a) ==
    LET k == IF a = {} THEN I64Bits ELSE CHOOSE i \in a : \A j \in a : i <= j
    IN {i \in BitIdx : IF i < k THEN TRUE ELSE (i # k /\ i \in a)}

\* the cells of the 2^order x 2^order grid that share an edge with (x, y)
EdgeNeighbours(x, y, order) ==
    {c \in {<<BvInc(x), y>>, <<BvDec(x), y>>, <<x, BvInc(y)>>, <<x, BvDec(y)>>} :
        c[1] \subseteq BvMask(order) /\ c[2] \subseteq BvMask(order)}

\* the index of the call lies in 0 .. 4^order - 1, the cell (0, 0) has index
\* 0, and unless the index is the last one an edge neighbour has the next
HilbertStep(order) ==
    /\ hCode \subseteq BvMask(2 * order)
    /\ encode(BvZero, BvZero, order) = BvZero
    /\ hCode # BvMask(2 * order) =>
          \E c \in EdgeNeighbours(hX, hY, order) :
             encode(c[1], c[2], order) = BvInc(hCode)

(***************************************************************************)
(* C30, as stated: for every order >= 1, encode restricted to              *)
(* 0 <= x, y < 2^order is a bijection onto 0 .. 4^order - 1 and cells of   *)
(* consecutive indices share an edge.  On a grid of 4^order cells this is  *)
(* the conjunction, over the cells, of HilbertStep: the indices 0, 1, 2,   *)
(* ... are then all taken, each by one cell, along a path of edge steps.   *)
(***************************************************************************)
C30_EncodeIsHilbertCurveEveryOrder ==
    hPc = "returned" => HilbertStep(hOrder)

(***************************************************************************)
(* C30, amended: the same for every order from 1 to 31.                    *)
(***************************************************************************)
C30_EncodeIsHilbertCurveUpTo31 ==
    (hPc = "returned" /\ hOrder <= I32Bits - 1) => HilbertStep(hOrder)

\* order 3, the cell (7, 7): not the last cell, so a neighbour follows it
C30_Witness ==
    /\ hPc = "returned"
    /\ hOrder = 3
    /\ hX = BvOfNat(7)
    /\ hY = BvOfNat(7)
    /\ hCode # BvMask(6)
    /\ \E c \in EdgeNeighbours(hX, hY, 3) : encode(c[1], c[2], 3) = BvInc(hCode)

(***************************************************************************)
(* hilbert_index_computer and the closure it returns, applied to every     *)
(* point as hilbert_curve_reorder does.  The points are given in the       *)
(* frame of their Mbr: `rotate` leaves them as they are and the aabb is    *)
(* their bounding box.  Coordinates are small even integers, so that       *)
(* every extent is a power of two and alpha, beta and alpha * x + beta of  *)
(* segment_to_segment are exact in f64.                                    *)
(***************************************************************************)
MaxHiPoints == 3
MaxHiOrder == 3
HiCoordValues == {0, 2, 4}
HiPointValues == HiCoordValues \X HiCoordValues

AxisValues(pts, a) == {pts[i][a] : i \in DOMAIN pts}

Aabb(pts) ==
    [p_min |-> <<MinOf(AxisValues(pts, 1)), MinOf(AxisValues(pts, 2))>>,
     p_max |-> <<MaxOf(AxisValues(pts, 1)), MaxOf(AxisValues(pts, 2))>>]

Rotate(p) == p

\* segment_to_segment: the closure keeps alpha = db / da and
\* beta = b_min - a_min * alpha; they are kept here as da, db, a_min, b_min
segment_to_segment(a_min, a_max, b_min, b_max) ==
    [da |-> a_min - a_max, db |-> b_min - b_max, a_min |-> a_min, b_min |-> b_min]

\* alpha * x + beta = MappingNum / MappingDen
MappingNum(m, x) == m.db * x + m.b_min * m.da - m.a_min * m.db
MappingDen(m) == m.da

Abs(n) == IF n < 0 THEN 0 - n ELSE n

\* the integer part of n / d (d # 0), taken towards zero
TruncDiv(n, d) ==
    IF (n < 0) = (d < 0) THEN Abs(n) \div Abs(d) ELSE 0 - (Abs(n) \div Abs(d))

\* da = 0 makes alpha infinite and alpha * x + beta a NaN; the cast of a NaN
\* `as i64` is 0 on a saturating build and i64::MIN where the conversion
\* instruction's result is kept
NanCasts == {BvZero, BvBit(I64Bits - 1)}

\* x_mapping(x) as i64; a value of [a_min, a_max] is mapped to a natural
CastAsI64(m, x, nan) ==
    IF MappingDen(m) = 0 THEN nan
    ELSE BvOfNat(TruncDiv(MappingNum(m, x), MappingDen(m)))

hilbert_index_computer ==
    /\ hiPc = "called"
    /\ LET aabb == Aabb(points)
       IN hiMap' = [built |-> TRUE,
                    x_mapping |-> segment_to_segment(aabb.p_min[1], aabb.p_max[1],
                                                     0, hiOrder),
                    y_mapping |-> segment_to_segment(aabb.p_min[2], aabb.p_max[2],
                                                     0, hiOrder)]
    /\ hiPc' = "built"
    /\ UNCHANGED <<hiOrder, hiXY, hiIdx, points, weights, nextPid, compVars,
                   mjVars, pfVars, zVars, encVars, infVars, kmVars, anVars, mdVars, spVars>>

compute_hilbert_index ==
    /\ hiPc = "built"
    /\ \E nan \in NanCasts :
          /\ hiXY' = [i \in DOMAIN points |->
                        <<CastAsI64(hiMap.x_mapping, Rotate(points[i])[1], nan),
                          CastAsI64(hiMap.y_mapping, Rotate(points[i])[2], nan)>>]
          /\ hiIdx' = [i \in DOMAIN points |->
                         encode(hiXY'[i][1], hiXY'[i][2], hiOrder)]
    /\ hiPc' = "mapped"
    /\ UNCHANGED <<hiOrder, hiMap, points, weights, nextPid, compVars, mjVars,
                   pfVars, zVars, encVars, infVars, kmVars, anVars, mdVars, spVars>>

InitHI ==
    /\ \E n \in 1..MaxHiPoints :
          /\ points \in [1..n -> HiPointValues]
          /\ weights = [i \in 1..n |-> 1]
    /\ nextPid = 0
    /\ CompIdle
    /\ MjIdle
    /\ PfIdle
    /\ ZIdle
    /\ EncIdle
    /\ InfIdle
    /\ KmIdle
    /\ AnIdle
    /\ MdIdle
    /\ SpIdle
    /\ hiOrder \in 1..MaxHiOrder
    /\ hiMap = NoMap
    /\ hiXY = <<>>
    /\ hiIdx = <<>>
    /\ hiPc = "called"

NextHI ==
    \/ hilbert_index_computer
    \/ compute_hilbert_index

SpecHI == InitHI /\ [][NextHI]_vars

(***************************************************************************)
(* C13: on an axis of positive extent the minimum coordinate is mapped to  *)
(* 0, the maximum to 2^order - 1 (the last cell of the grid), and every    *)
(* coordinate handed to encode is in 0 .. 2^order - 1.                     *)
(***************************************************************************)
C13_AxesMapOntoGrid ==
    hiPc = "mapped" =>
       \A i \in DOMAIN points, a \in 1..2 :
          LET lo == MinOf(AxisValues(points, a))
              hi == MaxOf(AxisValues(points, a))
          IN lo < hi =>
                /\ points[i][a] = lo => hiXY[i][a] = BvZero
                /\ points[i][a] = hi => hiXY[i][a] = BvMask(hiOrder)
                /\ hiXY[i][a] \subseteq BvMask(hiOrder)

(***************************************************************************)
(* Balanced k-means (k_means.rs).  An f64 is kept as a rational <<n, d>>   *)
(* in lowest terms with d > 0, so that sums, quotients and comparisons     *)
(* are exact; the rounding of the f64 operations is left out.              *)
(***************************************************************************)
RECURSIVE GCD(_, _)
GCD(a, b) == IF b = 0 THEN a ELSE GCD(b, a % b)

Rat(n, d) ==
    LET g == GCD(Abs(n), Abs(d))
        sgn == IF d < 0 THEN 0 - 1 ELSE 1
    IN IF g = 0 THEN <<0, 1>> ELSE <<sgn * (n \div g), sgn * (d \div g)>>

RInt(n) == <<n, 1>>
\* sums and comparisons go through the least common denominator and
\* products are reduced crosswise first, which keeps the integers small
RAdd(p, q) ==
    LET g == GCD(p[2], q[2])
    IN Rat(p[1] * (q[2] \div g) + q[1] * (p[2] \div g), (p[2] \div g) * q[2])
RNeg(p) == <<0 - p[1], p[2]>>
RSub(p, q) == RAdd(p, RNeg(q))
RMul(p, q) ==
    LET a == Rat(p[1], q[2])
        b == Rat(q[1], p[2])
    IN Rat(a[1] * b[1], a[2] * b[2])
\* p / q for q # 0
RDiv(p, q) == RMul(p, Rat(q[2], q[1]))
RLess(p, q) ==
    LET g == GCD(p[2], q[2])
    IN p[1] * (q[2] \div g) < q[1] * (p[2] \div g)
RAbs(p) == <<Abs(p[1]), p[2]>>
RMax(S) == CHOOSE m \in S : \A x \in S : ~RLess(m, x)
RMin(S) == CHOOSE m \in S : \A x \in S : ~RLess(x, m)

\* the root of a rational that is the square of a rational
ISqrt(n) == CHOOSE r \in 0..n : r * r = n
RSqrt(q) == <<ISqrt(q[1]), ISqrt(q[2])>>

(***************************************************************************)
(* The influence adaptation of assign_and_balance, lines 212-228.          *)
(* new_influence = influence / ratio.sqrt() is in general no rational: it  *)
(* is kept as its square, influence^2 * weight / target_weight, and        *)
(* compared through squares; where it is assigned its square is the        *)
(* square of a rational.  A weight of 0 makes ratio infinite (or a NaN,    *)
(* with a target of 0) and a target of 0 makes new_influence infinite.     *)
(***************************************************************************)
\* a variant of max_diff: a tenth of the influence
MaxDiffTenth(influence) == RMul(<<1, 10>>, influence)

\* let max_diff = 0.05 * *influence
MaxDiff(influence) == RMul(<<1, 20>>, influence)

NewInfluenceSq(influence, weight, target) ==
    IF weight[1] = 0
    THEN IF target[1] = 0 THEN [kind |-> "nan"] ELSE [kind |-> "fin", sq |-> <<0, 1>>]
    ELSE IF target[1] = 0 THEN [kind |-> "inf"]
    ELSE [kind |-> "fin",
          sq |-> RMul(RMul(influence, influence), RDiv(weight, target))]

AdaptInfluence(influence, weight, target) ==
    LET max_diff == MaxDiff(influence)
        new_influence == NewInfluenceSq(influence, weight, target)
        below == RSub(influence, max_diff)
        above == RAdd(influence, max_diff)
        \* (*influence - new_influence).abs() < max_diff
        within == /\ new_influence.kind = "fin"
                  /\ RLess(RMul(below, below), new_influence.sq)
                  /\ RLess(new_influence.sq, RMul(above, above))
        \* new_influence > *influence
        greater == \/ new_influence.kind = "inf"
                   \/ /\ new_influence.kind = "fin"
                      /\ RLess(RMul(influence, influence), new_influence.sq)
    IN IF within THEN RSqrt(new_influence.sq)
       ELSE IF greater THEN RAdd(influence, max_diff)
       ELSE RSub(influence, max_diff)

\* influences.iter_mut().zip(new_weights).for_each(..): the zip stops at the
\* shorter of the two
AdaptInfluences(infl, new_weights, target) ==
    [i \in DOMAIN infl |->
        IF i <= Len(new_weights) THEN AdaptInfluence(infl[i], new_weights[i], target)
        ELSE infl[i]]

MaxInfCenters == 2
InfInfluenceValues == {<<1, 1>>, <<2, 1>>, <<21, 20>>, <<1, 2>>}
InfWeightValues == {<<0, 1>>, <<1, 1>>, <<2, 1>>, <<361, 1>>, <<400, 1>>, <<441, 1>>}
InfTargetValues == {<<0, 1>>, <<1, 1>>, <<400, 1>>, <<441, 1>>}

AdaptCall ==
    /\ infPc = "called"
    /\ infResult' = AdaptInfluences(infInfluences, infNewWeights, infTarget)
    /\ infPc' = "returned"
    /\ UNCHANGED <<infInfluences, infNewWeights, infTarget, points, weights,
                   nextPid, compVars, mjVars, pfVars, zVars, encVars, hiVars,
                   kmVars, anVars, mdVars, spVars>>

InitInf ==
    /\ points = <<>>
    /\ weights = <<>>
    /\ nextPid = 0
    /\ CompIdle
    /\ MjIdle
    /\ PfIdle
    /\ ZIdle
    /\ EncIdle
    /\ HiIdle
    /\ KmIdle
    /\ AnIdle
    /\ MdIdle
    /\ SpIdle
    /\ \E n \in 1..MaxInfCenters : infInfluences \in [1..n -> InfInfluenceValues]
    /\ \E n \in 1..MaxInfCenters : infNewWeights \in [1..n -> InfWeightValues]
    /\ infTarget \in InfTargetValues
    /\ infResult = <<>>
    /\ infPc = "called"

NextInf == AdaptCall

SpecInf == InitInf /\ [][NextInf]_vars

(***************************************************************************)
(* C18: one adaptation changes each influence by at most 5% of its value   *)
(* before the update, for every part weight including zero, and a          *)
(* positive influence stays positive.                                      *)
(***************************************************************************)
C18_InfluenceStepWithinFivePercent ==
    infPc = "returned" =>
       \A i \in DOMAIN infInfluences :
          /\ ~RLess(RMul(<<1, 20>>, infInfluences[i]),
                    RAbs(RSub(infResult[i], infInfluences[i])))
          /\ RLess(<<0, 1>>, infResult[i])

\* a part of weight 0 takes its influence down by the full 5%, and a part
\* whose ratio is within the band takes the unclamped value
C18_Witness ==
    /\ infPc = "returned"
    /\ Len(infInfluences) = 2
    /\ Len(infNewWeights) = 2
    /\ infTarget = <<441, 1>>
    /\ infInfluences = <<<<1, 1>>, <<1, 1>>>>
    /\ infNewWeights = <<<<0, 1>>, <<400, 1>>>>
    /\ infResult = <<<<19, 20>>, <<20, 21>>>>

(***************************************************************************)
(* balanced_k_means and the functions under it.  The points lie on the x   *)
(* axis, so that a norm is an absolute value; a point is <<x, 0>> and a    *)
(* center is kept as its x, a rational.  `points` holds the points as      *)
(* qt.reorder() returned them: the pre-sort may return any order.          *)
(* MAX_ITER, 100 in the source, is a small bound here.                     *)
(***************************************************************************)
MAX_ITER == 1
MaxKmPoints == 3
MaxKmParts == 3
KmCoordValues == {0, 1, 4}
KmEpsilonValues == {<<0, 1>>, <<3, 10>>, <<2, 1>>}
KmDeltaValues == {<<0, 1>>, <<1, 1>>, <<10, 1>>}
\* the epsilon balanced_k_means_iter hands to assign_and_balance
BalanceEpsilon == <<3, 10>>
PosInf == <<1, 0>>

MinLen(a, b) == IF Len(a) < Len(b) THEN Len(a) ELSE Len(b)
PointX(p) == RInt(p[1])
\* (c1 - c2).norm()
Norm(c1, c2) == RAbs(RSub(c1, c2))

RECURSIVE RSum(_, _)
RSum(seq, i) == IF i > Len(seq) THEN <<0, 1>> ELSE RAdd(seq[i], RSum(seq, i + 1))

\* geometry::center: the arithmetic mean
geometry_center(xs) == RDiv(RSum(xs, 1), RInt(Len(xs)))

\* Mbr2D::distance_to_point on the x axis: 0 inside the box
distance_to_point(pts, c) ==
    LET lo == RInt(MinOf(AxisValues(pts, 1)))
        hi == RInt(MaxOf(AxisValues(pts, 1)))
    IN IF RLess(c, lo) THEN RSub(lo, c)
       ELSE IF RLess(hi, c) THEN RSub(c, hi)
       ELSE <<0, 1>>

\* into_group_map of keys.zip(vals): the values of key g, in order
GroupValues(keys, vals, g) ==
    LET zipped == [i \in 1..MinLen(keys, vals) |-> <<keys[i], vals[i]>>]
        mine == SelectSeq(zipped, LAMBDA z : z[1] = g)
    IN [i \in DOMAIN mine |-> mine[i][2]]

GroupKeys(keys, vals) == {keys[i] : i \in 1..MinLen(keys, vals)}

\* HashMap::into_iter: the keys in any order
GroupOrders(K) ==
    {f \in [1..Cardinality(K) -> K] : \A i, j \in 1..Cardinality(K) : f[i] = f[j] => i = j}

\* sorted_by(partial_cmp) on the distances: a stable sort
sorted_by(ds) ==
    CHOOSE f \in IndexPermutations(Len(ds)) :
       \A i, j \in 1..Len(ds) :
          i < j => \/ RLess(ds[f[i]], ds[f[j]])
                   \/ (ds[f[i]] = ds[f[j]] /\ f[i] < f[j])

\* imbalance: max - min, and 0 for fewer than two weights
imbalance(ws) ==
    IF Len(ws) < 2 THEN <<0, 1>>
    ELSE RSub(RMax({ws[i] : i \in DOMAIN ws}), RMin({ws[i] : i \in DOMAIN ws}))

\* relax_bounds
relax_bounds(lbs0, ubs0, distances_moved, infl) ==
    LET m == MinLen(distances_moved, infl)
        ratios == {RDiv(distances_moved[i], infl[i]) : i \in 1..m}
        max_distance_influence_ratio == IF m = 0 THEN <<0, 1>> ELSE RMax(ratios)
    IN [ubs |-> [i \in DOMAIN ubs0 |->
                    IF i <= m THEN RSub(ubs0[i], RDiv(distances_moved[i], infl[i]))
                    ELSE ubs0[i]],
        lbs |-> [i \in DOMAIN lbs0 |-> RAdd(lbs0[i], max_distance_influence_ratio)]]

None == [some |-> FALSE]
Some(v) == [some |-> TRUE, val |-> v]

\* best_values, the fold_while over the candidates from the i-th on
RECURSIVE fold_while(_, _, _)
fold_while(acc, cands, i) ==
    IF i > Len(cands) THEN acc
    ELSE LET c == cands[i]
             lb == acc.lb
             ub == acc.ub
         IN IF lb.some /\ RLess(lb.val, c.distance_to_mbr) THEN acc
            ELSE IF lb.some /\ RLess(c.effective_distance, lb.val)
            THEN fold_while([acc EXCEPT !.lb = Some(c.effective_distance)], cands, i + 1)
            ELSE IF ~lb.some
            THEN fold_while([lb |-> ub, ub |-> Some(c.effective_distance),
                             a |-> Some(c.id)], cands, i + 1)
            ELSE IF ub.some /\ RLess(c.effective_distance, ub.val)
            THEN fold_while([lb |-> Some(ub.val), ub |-> Some(c.effective_distance),
                             a |-> Some(c.id)], cands, i + 1)
            ELSE fold_while(acc, cands, i + 1)

Min4(a, b, c, d) == MinOf({a, b, c, d})

\* best_values; `panic` is lb.unwrap() or ub.unwrap() on a None
best_values(point, cs, ids, dists, infl) ==
    LET m == Min4(Len(cs), Len(ids), Len(dists), Len(infl))
        cands == [j \in 1..m |->
                    [id |-> ids[j],
                     distance_to_mbr |-> dists[j],
                     effective_distance |-> RDiv(Norm(cs[j], PointX(point)), infl[j])]]
        r == fold_while([lb |-> None, ub |-> None, a |-> None], cands, 1)
    IN IF r.lb.some /\ r.ub.some
       THEN [panic |-> FALSE, lb |-> r.lb.val, ub |-> r.ub.val, a |-> r.a]
       ELSE [panic |-> TRUE]

kmInputs == <<points, weights, km_num_partitions, epsilon, delta_threshold>>
kmOthers == <<compVars, mjVars, pfVars, zVars, encVars, hiVars, infVars, anVars, mdVars, spVars>>

\* balanced_k_means, lines 35-57: `n / 0` and step_by(0) panic
balanced_k_means ==
    /\ kmPc = "called"
    /\ LET n == Len(points)
           points_per_center ==
              IF km_num_partitions = 0 THEN 0 ELSE n \div km_num_partitions
           nc == IF points_per_center = 0 THEN 0
                 ELSE (n + points_per_center - 1) \div points_per_center
           ids == [j \in 1..nc |-> ProcessUniqueIdNew(nextPid + j - 1)]
       IN IF points_per_center = 0
          THEN /\ kmPc' = "panicked"
               /\ UNCHANGED <<nextPid, centers, center_ids, influences, assignments,
                              ubs, lbs, current_iter>>
          ELSE /\ centers' = [j \in 1..nc |->
                                PointX(points[1 + (j - 1) * points_per_center])]
               /\ center_ids' = ids
               /\ nextPid' = nextPid + nc
               /\ assignments' = [i \in 1..n |->
                                    ids[((i - 1) \div points_per_center) + 1]]
               /\ influences' = [j \in 1..nc |-> <<1, 1>>]
               /\ lbs' = [i \in 1..n |-> <<0, 1>>]
               /\ ubs' = [i \in 1..n |-> <<1, 1>>]
               /\ current_iter' = MAX_ITER
               /\ kmPc' = "iter"
    /\ UNCHANGED <<kmInputs, kmOthers, sorted_centers, distances_to_mbr,
                   target_weight, inner_iter, kmOut, hSwept, hBalance, hAdapt,
                   hRelax, hCalls, hDeltaMax>>

\* balanced_k_means_iter calls assign_and_balance, lines 87-98 and 156-170
assign_and_balance_enter ==
    /\ kmPc = "iter"
    /\ LET m == MinLen(centers, influences)
           d == [j \in 1..m |->
                   RDiv(distance_to_point(points, centers[j]), influences[j])]
           f == sorted_by(d)
       IN /\ sorted_centers' = [j \in 1..m |-> centers[f[j]]]
          /\ distances_to_mbr' = [j \in 1..m |-> d[f[j]]]
    /\ target_weight' = RDiv(RSum([i \in DOMAIN weights |-> RInt(weights[i])], 1),
                             RInt(Len(weights)))
    /\ inner_iter' = 0
    /\ hCalls' = hCalls + 1
    /\ kmPc' = "sweep"
    /\ UNCHANGED <<kmInputs, kmOthers, nextPid, centers, center_ids, influences,
                   assignments, ubs, lbs, current_iter, kmOut, hSwept, hBalance,
                   hAdapt, hRelax, hDeltaMax>>

\* assign_and_balance, lines 173-189: the sweep over the points
assignment_sweep ==
    /\ kmPc = "sweep"
    /\ LET n == Min4(Len(points), Len(assignments), Len(lbs), Len(ubs))
           swept == {i \in 1..n : RLess(lbs[i], ubs[i])}
           bv == [i \in swept |->
                    best_values(points[i], sorted_centers, center_ids,
                                distances_to_mbr, influences)]
       IN IF \E i \in swept : bv[i].panic
          THEN /\ kmPc' = "panicked"
               /\ UNCHANGED <<lbs, ubs, assignments, hSwept>>
          ELSE /\ lbs' = [i \in DOMAIN lbs |-> IF i \in swept THEN bv[i].lb ELSE lbs[i]]
               /\ ubs' = [i \in DOMAIN ubs |-> IF i \in swept THEN bv[i].ub ELSE ubs[i]]
               /\ assignments' = [i \in DOMAIN assignments |->
                                    IF i \in swept /\ bv[i].a.some
                                    THEN bv[i].a.val ELSE assignments[i]]
               /\ hSwept' = swept
               /\ kmPc' = "balance"
    /\ UNCHANGED <<kmInputs, kmOthers, nextPid, centers, center_ids, influences,
                   current_iter, sorted_centers, distances_to_mbr, target_weight,
                   inner_iter, kmOut, hBalance, hAdapt, hRelax, hCalls, hDeltaMax>>

\* lines 193-202: the weights of the groups, in the order ord of the HashMap
NewWeights(ord) ==
    [j \in DOMAIN ord |->
        RSum(GroupValues(assignments, [i \in DOMAIN weights |-> RInt(weights[i])],
                         ord[j]), 1)]

\* the weight of the points assigned to each center, by index of the center
PartWeights ==
    [j \in DOMAIN center_ids |->
        RSum(GroupValues(assignments, [i \in DOMAIN weights |-> RInt(weights[i])],
                         center_ids[j]), 1)]

\* lines 204-206, and the caller's
\* `let (assignments, influences, mut ubs, mut lbs) = assign_and_balance(..)`
\* of the returned (assignments, influences, lbs, ubs)
balance_return ==
    /\ kmPc = "balance"
    /\ \E ord \in GroupOrders(GroupKeys(assignments, weights)) :
          LET new_weights == NewWeights(ord)
          IN /\ RLess(imbalance(new_weights), BalanceEpsilon)
             /\ hBalance' = [tested |-> TRUE, imbalance |-> imbalance(new_weights),
                             returned |-> TRUE]
    /\ ubs' = lbs
    /\ lbs' = ubs
    /\ kmPc' = "outer"
    /\ UNCHANGED <<kmInputs, kmOthers, nextPid, centers, center_ids, influences,
                   assignments, current_iter, sorted_centers, distances_to_mbr,
                   target_weight, inner_iter, kmOut, hSwept, hAdapt, hRelax,
                   hCalls, hDeltaMax>>

\* lines 208-247: adapt the influences, relax the bounds, and either sweep
\* again or leave the loop and return as above
adapt_and_relax ==
    /\ kmPc = "balance"
    /\ \E ord \in GroupOrders(GroupKeys(assignments, weights)),
          ord2 \in GroupOrders(GroupKeys(assignments, points)) :
          LET new_weights == NewWeights(ord)
              adapted == AdaptInfluences(influences, new_weights, target_weight)
              new_centers ==
                 [j \in DOMAIN ord2 |->
                     geometry_center(
                        GroupValues(assignments,
                                    [i \in DOMAIN points |-> PointX(points[i])],
                                    ord2[j]))]
              m == MinLen(sorted_centers, new_centers)
              distances_to_old_centers ==
                 [j \in 1..m |-> Norm(sorted_centers[j], new_centers[j])]
              r == relax_bounds(lbs, ubs, distances_to_old_centers, adapted)
              last == inner_iter + 1 >= MAX_ITER
          IN /\ ~RLess(imbalance(new_weights), BalanceEpsilon)
             /\ influences' = adapted
             /\ hBalance' = [tested |-> TRUE, imbalance |-> imbalance(new_weights),
                             returned |-> FALSE]
             /\ hAdapt' = [adapted |-> TRUE, before |-> influences, after |-> adapted,
                           part_weights |-> PartWeights, target |-> target_weight]
             /\ hRelax' = [relaxed |-> TRUE, lbs_before |-> lbs, ubs_before |-> ubs,
                           lbs_after |-> r.lbs, ubs_after |-> r.ubs,
                           distances |-> distances_to_old_centers,
                           influences |-> adapted, assignments |-> assignments]
             /\ lbs' = IF last THEN r.ubs ELSE r.lbs
             /\ ubs' = IF last THEN r.lbs ELSE r.ubs
             /\ kmPc' = IF last THEN "outer" ELSE "sweep"
    /\ inner_iter' = inner_iter + 1
    /\ UNCHANGED <<kmInputs, kmOthers, nextPid, centers, center_ids, assignments,
                   current_iter, sorted_centers, distances_to_mbr, target_weight,
                   kmOut, hSwept, hCalls, hDeltaMax>>

\* balanced_k_means_iter, lines 100-136; the value returned is the vector
\* of (point, id) pairs and nothing else
new_centers_and_recurse ==
    /\ kmPc = "outer"
    /\ \E ord \in GroupOrders(GroupKeys(assignments, centers)) :
          LET new_centers ==
                 [j \in DOMAIN ord |->
                     geometry_center(GroupValues(assignments, centers, ord[j]))]
              m == MinLen(centers, new_centers)
              distances_moved == [j \in 1..m |-> Norm(centers[j], new_centers[j])]
              delta_max == RMax({distances_moved[j] : j \in 1..m})
              r == relax_bounds(lbs, ubs, distances_moved, influences)
          IN /\ hDeltaMax' = delta_max
             /\ IF RLess(delta_max, delta_threshold) \/ current_iter = 0
                THEN /\ kmOut' = [pairs |-> [i \in 1..MinLen(points, assignments) |->
                                               <<points[i], assignments[i]>>]]
                     /\ kmPc' = "returned"
                     /\ UNCHANGED <<centers, lbs, ubs, current_iter, hRelax>>
                ELSE /\ hRelax' = [relaxed |-> TRUE, lbs_before |-> lbs,
                                   ubs_before |-> ubs, lbs_after |-> r.lbs,
                                   ubs_after |-> r.ubs, distances |-> distances_moved,
                                   influences |-> influences,
                                   assignments |-> assignments]
                     /\ lbs' = r.lbs
                     /\ ubs' = r.ubs
                     /\ centers' = new_centers
                     /\ current_iter' = current_iter - 1
                     /\ kmPc' = "iter"
                     /\ UNCHANGED kmOut
    /\ UNCHANGED <<kmInputs, kmOthers, nextPid, center_ids, influences, assignments,
                   sorted_centers, distances_to_mbr, target_weight, inner_iter,
                   hSwept, hBalance, hAdapt, hCalls>>

InitKM ==
    /\ \E n \in 1..MaxKmPoints :
          /\ points \in [1..n -> {<<x, 0>> : x \in KmCoordValues}]
          /\ weights = [i \in 1..n |-> 1]
    /\ nextPid = 0
    /\ CompIdle
    /\ MjIdle
    /\ PfIdle
    /\ ZIdle
    /\ EncIdle
    /\ HiIdle
    /\ InfIdle
    /\ AnIdle
    /\ MdIdle
    /\ SpIdle
    /\ km_num_partitions \in 1..MaxKmParts
    /\ epsilon \in KmEpsilonValues
    /\ delta_threshold \in KmDeltaValues
    /\ centers = <<>>
    /\ center_ids = <<>>
    /\ influences = <<>>
    /\ assignments = <<>>
    /\ ubs = <<>>
    /\ lbs = <<>>
    /\ current_iter = 0
    /\ sorted_centers = <<>>
    /\ distances_to_mbr = <<>>
    /\ target_weight = <<0, 1>>
    /\ inner_iter = 0
    /\ kmOut = <<>>
    /\ kmPc = "called"
    /\ hSwept = {}
    /\ hBalance = NoBalance
    /\ hAdapt = NoAdapt
    /\ hRelax = NoRelax
    /\ hCalls = 0
    /\ hDeltaMax = <<0, 1>>

NextKM ==
    \/ balanced_k_means
    \/ assign_and_balance_enter
    \/ assignment_sweep
    \/ balance_return
    \/ adapt_and_relax
    \/ new_centers_and_recurse

SpecKM == InitKM /\ [][NextKM]_vars

(***************************************************************************)
(* C14: balanced k-means stops after at most max_iter calls of its outer   *)
(* iteration, and a result returned because the budget ran out, the        *)
(* largest centroid move not being below delta_threshold, carries the      *)
(* flag "not converged".                                                   *)
(***************************************************************************)
C14_StopsWithinBudgetOrFlagsNotConverged ==
    /\ hCalls <= MAX_ITER
    /\ (kmPc = "returned" /\ ~RLess(hDeltaMax, delta_threshold))
          => "not_converged" \in DOMAIN kmOut

(***************************************************************************)
(* C15: after a sweep, every point it evaluated is assigned to a center    *)
(* of minimal effective distance, its ub is that distance and, with two    *)
(* centers or more, its lb is the second-smallest effective distance.      *)
(***************************************************************************)
EffectiveDistance(i, j) ==
    RDiv(Norm(sorted_centers[j], PointX(points[i])), influences[j])

C15_SweepAssignsNearestCenter ==
    kmPc = "balance" =>
       \A i \in hSwept :
          LET cand == 1..Min4(Len(sorted_centers), Len(center_ids),
                              Len(distances_to_mbr), Len(influences))
              best == RMin({EffectiveDistance(i, j) : j \in cand})
              nearest == CHOOSE j \in cand : EffectiveDistance(i, j) = best
              assigned == CHOOSE j \in DOMAIN center_ids : center_ids[j] = assignments[i]
          IN /\ assigned \in cand
             /\ EffectiveDistance(i, assigned) = best
             /\ ubs[i] = best
             /\ Cardinality(cand) >= 2 =>
                   lbs[i] = RMin({EffectiveDistance(i, j) : j \in cand \ {nearest}})

(***************************************************************************)
(* C16: after a sweep assign_and_balance returns for balance exactly when  *)
(* the imbalance of the part weights is below the caller's epsilon.        *)
(***************************************************************************)
C16_ReturnsWhenBelowCallersEpsilon ==
    hBalance.tested => (hBalance.returned <=> RLess(hBalance.imbalance, epsilon))

(***************************************************************************)
(* C17: an adaptation does not increase the influence of a part whose      *)
(* weight, the weight of the points assigned to it, is above               *)
(* target_weight, and does not decrease that of a part below it.           *)
(***************************************************************************)
C17_HeavyPartsLoseInfluence ==
    hAdapt.adapted =>
       \A j \in DOMAIN hAdapt.before :
          /\ RLess(hAdapt.target, hAdapt.part_weights[j])
                => ~RLess(hAdapt.before[j], hAdapt.after[j])
          /\ RLess(hAdapt.part_weights[j], hAdapt.target)
                => ~RLess(hAdapt.after[j], hAdapt.before[j])

(***************************************************************************)
(* C19: relax_bounds leaves every lb and every ub at 0 or above, and       *)
(* takes from the ub of a point the distance moved over the influence of   *)
(* the center the point is assigned to.                                    *)
(***************************************************************************)
C19_RelaxedBoundsStayNonNegative ==
    hRelax.relaxed =>
       \A i \in DOMAIN hRelax.ubs_after :
          LET a == CHOOSE j \in DOMAIN center_ids :
                      center_ids[j] = hRelax.assignments[i]
          IN /\ ~RLess(hRelax.ubs_after[i], <<0, 1>>)
             /\ ~RLess(hRelax.lbs_after[i], <<0, 1>>)
             /\ a <= MinLen(hRelax.distances, hRelax.influences) =>
                   hRelax.ubs_after[i] =
                      RSub(hRelax.ubs_before[i],
                           RDiv(hRelax.distances[a], hRelax.influences[a]))

(***************************************************************************)
(* C20: when the first outer iteration starts every influence is 1, every  *)
(* lb is 0 and every ub is +infinity.                                      *)
(***************************************************************************)
C20_InitialBoundsAreZeroAndInfinity ==
    (kmPc = "iter" /\ hCalls = 0) =>
       /\ \A j \in DOMAIN influences : influences[j] = <<1, 1>>
       /\ \A i \in DOMAIN lbs : lbs[i] = <<0, 1>>
       /\ \A i \in DOMAIN ubs : ubs[i] = PosInf

(***************************************************************************)
(* C27: when assign_and_balance returns, on the balanced return and on the *)
(* return after the iteration budget alike, the caller's ubs is the ubs    *)
(* computed inside and its lbs is the lbs computed inside.                 *)
(***************************************************************************)
C27_BoundsComeBackUnswapped ==
    [][(kmPc = "balance" /\ kmPc' = "outer") =>
          IF hBalance'.returned
          THEN ubs' = ubs /\ lbs' = lbs
          ELSE ubs' = hRelax'.ubs_after /\ lbs' = hRelax'.lbs_after]_vars

(***************************************************************************)
(* C28: for n points and 1 <= num_partitions = k <= n the seeding selects  *)
(* k centers and mints k ids, the initial assignment has length n, and the *)
(* assignment returned holds at most k distinct ids.                       *)
(***************************************************************************)
C28_SeedsExactlyKCenters ==
    (kmPc \notin {"called", "panicked"} /\ km_num_partitions <= Len(points)) =>
       /\ Len(center_ids) = km_num_partitions
       /\ nextPid = km_num_partitions
       /\ Len(assignments) = Len(points)
       /\ (kmPc = "iter" /\ hCalls = 0) => Len(centers) = km_num_partitions
       /\ kmPc = "returned" =>
             Cardinality({kmOut.pairs[i][2] : i \in DOMAIN kmOut.pairs})
                <= km_num_partitions

(***************************************************************************)
(* The quality measures of src/src/analysis.rs.  The weights are small     *)
(* naturals, whose f64 sums are exact; `partition` has one id per weight.  *)
(***************************************************************************)
MaxAnPoints == 3
AnWeightValues == {0, 1, 3}
AnIds == {ProcessUniqueIdNew(c) : c \in 0..2}

RECURSIVE SumSeq(_)
SumSeq(s) == IF s = <<>> THEN 0 ELSE s[1] + SumSeq(Tail(s))

\* a grouping that forgets the first weight of every part
analysis_weights_skip_first(ws, part, ord) ==
    [k \in DOMAIN ord |-> <<ord[k], SumSeq(Tail(GroupValues(part, ws, ord[k])))>>]

\* analysis::weights: zip, into_group_map, then one (id, sum) per key, the
\* keys in the order `ord` the HashMap iterates them
analysis_weights(ws, part, ord) ==
    [k \in DOMAIN ord |-> <<ord[k], SumSeq(GroupValues(part, ws, ord[k]))>>]

\* a measure that compares each part with the first one only
imbalance_max_diff_to_first(parts_weights) ==
    IF parts_weights = <<>> THEN 0
    ELSE MaxOf({parts_weights[i][2] - parts_weights[1][2] : i \in DOMAIN parts_weights})

\* imbalance_max_diff, after `let parts_weights = self::weights(..)`: the
\* largest |w1 - w2| over all pairs, or 0 when there is no pair
imbalance_max_diff(parts_weights) ==
    IF parts_weights = <<>> THEN 0
    ELSE MaxOf({Abs(parts_weights[i][2] - parts_weights[j][2]) :
                   i \in DOMAIN parts_weights, j \in DOMAIN parts_weights})

\* a call of analysis::weights(&weights, &partition)
analysis_weights_call ==
    /\ anPc = "called"
    /\ \E ord \in GroupOrders(GroupKeys(anPartition, weights)) :
          anOut' = analysis_weights(weights, anPartition, ord)
    /\ anPc' = "weighed"
    /\ UNCHANGED <<points, weights, nextPid, anPartition, anDiff, compVars, mjVars,
                   pfVars, zVars, encVars, hiVars, infVars, kmVars, mdVars, spVars>>

\* a call of analysis::imbalance_max_diff(&weights, &partition)
imbalance_max_diff_call ==
    /\ anPc = "called"
    /\ \E ord \in GroupOrders(GroupKeys(anPartition, weights)) :
          /\ anOut' = analysis_weights(weights, anPartition, ord)
          /\ anDiff' = imbalance_max_diff(anOut')
    /\ anPc' = "returned"
    /\ UNCHANGED <<points, weights, nextPid, anPartition, compVars, mjVars,
                   pfVars, zVars, encVars, hiVars, infVars, kmVars, mdVars, spVars>>

InitAn ==
    /\ points = <<>>
    /\ \E n \in 0..MaxAnPoints :
          /\ weights \in [1..n -> AnWeightValues]
          /\ anPartition \in [1..n -> AnIds]
    /\ nextPid = 3
    /\ CompIdle
    /\ MjIdle
    /\ PfIdle
    /\ ZIdle
    /\ EncIdle
    /\ HiIdle
    /\ InfIdle
    /\ KmIdle
    /\ MdIdle
    /\ SpIdle
    /\ anOut = <<>>
    /\ anDiff = 0
    /\ anPc = "called"

NextAn ==
    \/ analysis_weights_call
    \/ imbalance_max_diff_call

SpecAn == InitAn /\ [][NextAn]_vars

\* the total weight of the points labelled `id`, index by index
RECURSIVE PartTotal(_, _)
PartTotal(id, n) ==
    IF n = 0 THEN 0
    ELSE PartTotal(id, n - 1) + (IF anPartition[n] = id THEN weights[n] ELSE 0)

(***************************************************************************)
(* C21: analysis::weights returns exactly one entry per id that occurs in  *)
(* partition, its value is the sum of the weights of the points labelled   *)
(* with that id, and the values add up to the total of the weights.        *)
(***************************************************************************)
C21_OneSumPerPart ==
    anPc = "weighed" =>
       /\ \A i, j \in DOMAIN anOut : anOut[i][1] = anOut[j][1] => i = j
       /\ {anOut[i][1] : i \in DOMAIN anOut} = Range(anPartition)
       /\ \A i \in DOMAIN anOut :
             anOut[i][2] = PartTotal(anOut[i][1], Len(anPartition))
       /\ SumSeq([i \in DOMAIN anOut |-> anOut[i][2]]) = SumSeq(weights)

\* three points in two parts, the part of two points weighing 1 + 3
C21_Witness ==
    /\ anPc = "weighed"
    /\ Len(anPartition) = 3
    /\ Len(anOut) = 2
    /\ \E i \in DOMAIN anOut : anOut[i][2] = 4
    /\ weights[1] = 1

(***************************************************************************)
(* C22: imbalance_max_diff is the largest per-part weight minus the        *)
(* smallest one; it is 0 for an empty partition and for a single part,     *)
(* and it is never negative.                                               *)
(***************************************************************************)
C22_MaxDiffIsMaxMinusMin ==
    anPc = "returned" =>
       LET totals == {PartTotal(id, Len(anPartition)) : id \in Range(anPartition)}
       IN /\ anDiff >= 0
          /\ Cardinality(Range(anPartition)) <= 1 => anDiff = 0
          /\ totals # {} => anDiff = MaxOf(totals) - MinOf(totals)

\* three parts of weights 3, 0 and 1, the heaviest one first
C22_Witness ==
    /\ anPc = "returned"
    /\ Cardinality(Range(anPartition)) = 3
    /\ anDiff = 3
    /\ anOut[1][2] = 0

(***************************************************************************)
(* One slab of multi_jagged_2d_recurse alone: the `if let Some(num_splits)`*)
(* branch up to split_at_mut_many (multi_jagged.rs:90-94), and             *)
(* split_at_mut_many called with positions of the caller's choice, as in   *)
(* test_split_at_mut_many.  The slab holds every point.                    *)
(***************************************************************************)
MaxSlab == 3
MaxSplits == 2
SlabWeightValues == {0, 1, 2}

\* `permutation` after axis_sort(points, permutation, x_axis)
SpSlab == axis_sort([i \in 1..Len(points) |-> i], TRUE)

\* lines 91-93: axis_sort, then compute_split_positions over the blocks `cut`
recurse_split_positions ==
    /\ spPc = "start"
    /\ \E cut \in Cuts(SpSlab) :
          spPositions' = compute_split_positions(SpSlab, spNumSplits, cut)
    /\ spPc' = IF spPositions'.panic THEN "panicked" ELSE "computed"
    /\ UNCHANGED <<points, weights, nextPid, spNumSplits, spParts, compVars, mjVars,
                   pfVars, zVars, encVars, hiVars, infVars, kmVars, anVars, mdVars>>

\* line 94, and the call of the test: split_at_mut_many(permutation, &positions)
recurse_split_at_mut_many ==
    /\ spPc \in {"computed", "given"}
    /\ spParts' = split_at_mut_many(SpSlab, spPositions.positions)
    /\ spPc' = IF spPc = "computed"
               THEN (IF spParts'.panic THEN "split_panicked" ELSE "split")
               ELSE (IF spParts'.panic THEN "given_panicked" ELSE "split_given")
    /\ UNCHANGED <<points, weights, nextPid, spNumSplits, spPositions, compVars,
                   mjVars, pfVars, zVars, encVars, hiVars, infVars, kmVars, anVars,
                   mdVars>>

InitSplit ==
    /\ spPc \in {"start", "given"}
    /\ \E n \in 0..MaxSlab :
          /\ points \in PointVectors(n)
          /\ weights \in IF spPc = "start" THEN [1..n -> SlabWeightValues]
                         ELSE {[i \in 1..n |-> 1]}
    /\ nextPid = 0
    /\ CompIdle
    /\ MjIdle
    /\ PfIdle
    /\ ZIdle
    /\ EncIdle
    /\ HiIdle
    /\ InfIdle
    /\ KmIdle
    /\ AnIdle
    /\ MdIdle
    /\ spNumSplits \in 1..MaxSplits
    /\ spPositions \in
          IF spPc = "start" THEN {NoSplit}
          ELSE {[panic |-> FALSE, positions |-> q] :
                   q \in {r \in SeqsUpTo(0..(MaxSlab + 1), MaxSplits) :
                            Len(r) = spNumSplits}}
    /\ spParts = NoParts

NextSplit ==
    \/ recurse_split_positions
    \/ recurse_split_at_mut_many

SpecSplit == InitSplit /\ [][NextSplit]_vars

RECURSIVE Concat(_)
Concat(ss) == IF ss = <<>> THEN <<>> ELSE ss[1] \o Concat(Tail(ss))

\* p_1 <= ... <= p_m <= L
SortedPositions(positions, L) ==
    /\ \A j \in 1..(Len(positions) - 1) : positions[j] <= positions[j + 1]
    /\ \A j \in DOMAIN positions : positions[j] <= L

(***************************************************************************)
(* C24: for positions p_1 <= ... <= p_m <= L split_at_mut_many returns     *)
(* m + 1 sub-slices, the i-th being slice[p_(i-1) .. p_i] with p_0 = 0 and *)
(* p_(m+1) = L: they are pairwise disjoint, their concatenation is the     *)
(* slice, and two equal consecutive positions give an empty sub-slice.     *)
(***************************************************************************)
C24_SplitsAtThePositions ==
    (/\ spPc \in {"split", "split_given", "split_panicked", "given_panicked"}
     /\ SortedPositions(spPositions.positions, Len(SpSlab))) =>
       LET pos == spPositions.positions
           m == Len(pos)
           from(i) == IF i = 1 THEN 0 ELSE pos[i - 1]
           to(i) == IF i = m + 1 THEN Len(SpSlab) ELSE pos[i]
       IN /\ ~spParts.panic
          /\ Len(spParts.parts) = m + 1
          /\ \A i \in 1..(m + 1) :
                /\ spParts.parts[i] = SubSeq(SpSlab, from(i) + 1, to(i))
                /\ from(i) = to(i) => spParts.parts[i] = <<>>
          /\ \A i, j \in 1..(m + 1) :
                i # j => Range(spParts.parts[i]) \cap Range(spParts.parts[j]) = {}
          /\ Concat(spParts.parts) = SpSlab

\* positions 1, 1 on a slab of three: an empty middle sub-slice
C24_Witness ==
    /\ spPc = "split_given"
    /\ Len(SpSlab) = 3
    /\ spPositions.positions = <<1, 1>>
    /\ spParts.parts[2] = <<>>
    /\ Len(spParts.parts[3]) = 2

\* the cumulative weight of the first p elements of the slab
CumWeight(p) == SumWeights(SpSlab, 1, p)

(***************************************************************************)
(* C25: each position compute_split_positions returns is the smallest      *)
(* prefix length whose cumulative weight is at least its threshold         *)
(* T_j = (j / s) * total, s = num_splits + 1 being the number of slabs.    *)
(***************************************************************************)
C25_PositionsAreSmallestPrefixes ==
    spPc = "computed" =>
       LET total == CumWeight(Len(SpSlab))
           reaches(p, j) == CumWeight(p) * (spNumSplits + 1) >= total * j
       IN \A j \in 1..spNumSplits :
             /\ reaches(spPositions.positions[j], j)
             /\ \A p \in 0..(spPositions.positions[j] - 1) : ~reaches(p, j)

(***************************************************************************)
(* C26: for every slab (empty, shorter than the number of splits, of       *)
(* total weight 0), compute_split_positions returns without a panic        *)
(* num_splits positions, non-decreasing and at most the slab length, so    *)
(* that split_at_mut_many does not panic either.                           *)
(***************************************************************************)
C26_SplitPositionsNeverPanic ==
    /\ spPc \notin {"panicked", "split_panicked"}
    /\ spPc \in {"computed", "split"} =>
          /\ Len(spPositions.positions) = spNumSplits
          /\ SortedPositions(spPositions.positions, Len(SpSlab))

(***************************************************************************)
(* The Medit ASCII writer of src/tools/mesh-io/src/medit/serializer.rs.    *)
(* A text is the sequence of its tokens, each with the white space written *)
(* before it (`sep`); a number token is its sign, its integer digits and   *)
(* its fraction digits.  An f64 is kept as a sign and an exact rational:   *)
(* the model holds values whose shortest decimal form is short, for which  *)
(* the f64 formatter writes exactly that form.  The Mesh type and the      *)
(* parser are not in the source tree; they are modelled after spec 6       *)
(* (dimension, vertex list, 1-based references, sections keyed by element  *)
(* type).                                                                  *)
(***************************************************************************)
MaxMdNodes == 2
MaxMdSections == 2
MdDimensions == {2, 3}
\* 2.3, -0.2, 1231 and 0.0001, with node references 0, 7, -1 and 12
MdCoordSeq == << [neg |-> FALSE, mag |-> <<23, 10>>], [neg |-> TRUE, mag |-> <<1, 5>>],
                 [neg |-> FALSE, mag |-> <<1231, 1>>], [neg |-> FALSE, mag |-> <<1, 10000>>] >>
MdRefSeq == <<0, 7, -1, 12>>
MdElementTypes == {"Edge", "Triangle"}
MdElementCounts == {0, 2}

\* impl fmt::Display for ElementType
ElementTypeName(t) ==
    CASE t = "Vertex" -> "Vertices"
      [] t = "Edge" -> "Edges"
      [] t = "Triangle" -> "Triangles"
      [] t = "Quadrangle" -> "Quadrangles"
      [] t = "Quadrilateral" -> "Quadrilaterals"
      [] t = "Tetrahedron" -> "Tetrahedra"
      [] t = "Hexahedron" -> "Hexahedra"

\* the parser's reading of a section keyword
ElementTypeOfName(w) == CHOOSE t \in MdElementTypes : ElementTypeName(t) = w

\* ElementType::node_count
node_count(t) == IF t = "Edge" THEN 2 ELSE 3

Word(sep, w) == [sep |-> sep, word |-> w, neg |-> FALSE, int |-> <<>>, frac |-> <<>>]
Numeral(sep, t) == [sep |-> sep, word |-> "", neg |-> t.neg, int |-> t.int, frac |-> t.frac]

RECURSIVE MdDigits(_)
MdDigits(n) == IF n < 10 THEN <<n>> ELSE Append(MdDigits(n \div 10), n % 10)

RECURSIVE MdNumber(_)
MdNumber(ds) ==
    IF ds = <<>> THEN 0 ELSE 10 * MdNumber(SubSeq(ds, 1, Len(ds) - 1)) + ds[Len(ds)]

\* `{}` of an integer, and of an f64: the shortest decimal form, without an
\* exponent and without a fraction when the value is whole
fmt_int(n) == [neg |-> n < 0, int |-> MdDigits(Abs(n)), frac |-> <<>>]
fmt_f64(v) ==
    LET fits(k) == (v.mag[1] * 10 ^ k) % v.mag[2] = 0
        k == CHOOSE i \in 0..9 : fits(i) /\ \A j \in 0..(i - 1) : ~fits(j)
        m == (v.mag[1] * 10 ^ k) \div v.mag[2]
    IN [neg |-> v.neg, int |-> MdDigits(m \div 10 ^ k),
        frac |-> [j \in 1..k |-> (m \div 10 ^ (k - j)) % 10]]

\* str::parse of an integer, and of an f64
parse_int(t) == IF t.neg THEN 0 - MdNumber(t.int) ELSE MdNumber(t.int)
parse_f64(t) == [neg |-> t.neg, mag |-> Rat(MdNumber(t.int \o t.frac), 10 ^ Len(t.frac))]

\* a node written without the `+ 1`
NodeNumberStored(node) == node

\* line 53: `node + 1`
NodeNumber(node) == node + 1

\* impl fmt::Display for Mesh
mesh_fmt(mesh) ==
    LET d == mesh.dimension
        First(j) == IF j = 1 THEN "\n " ELSE " "
        NodeRow(i) ==
            [k \in 1..d |-> Numeral(First(k), fmt_f64(mesh.coordinates[(i - 1) * d + k]))]
               \o <<Numeral(" ", fmt_int(mesh.node_refs[i]))>>
        ElementRow(sec, r) ==
            LET k == node_count(sec.element_type)
                last == IF r * k < Len(sec.nodes) THEN r * k ELSE Len(sec.nodes)
                element == SubSeq(sec.nodes, (r - 1) * k + 1, last)
            IN [j \in DOMAIN element |->
                   Numeral(First(j), fmt_int(NodeNumber(element[j])))]
                  \o <<Numeral(" ", fmt_int(sec.refs[r]))>>
        Section(sec) ==
            LET k == node_count(sec.element_type)
                chunks == (Len(sec.nodes) + k - 1) \div k
                rows == IF chunks < Len(sec.refs) THEN chunks ELSE Len(sec.refs)
            IN <<Word("\n\n", ElementTypeName(sec.element_type)),
                 Numeral("\n\t", fmt_int(Len(sec.refs)))>>
                  \o Concat([r \in 1..rows |-> ElementRow(sec, r)])
    IN <<Word("", "MeshVersionFormatted"), Numeral(" ", fmt_int(2)),
         Word("\n", "Dimension"), Numeral(" ", fmt_int(d)),
         Word("\n\n", "Vertices"), Numeral("\n\t", fmt_int(Len(mesh.node_refs)))>>
          \o Concat([i \in DOMAIN mesh.node_refs |-> NodeRow(i)])
          \o Concat([s \in DOMAIN mesh.topology |-> Section(mesh.topology[s])])
          \o <<Word("\n\n", "End")>>

\* the parser, from the token at index i on: sections up to `End`
RECURSIVE parse_sections(_, _, _)
parse_sections(text, i, acc) ==
    IF text[i].word = "End" THEN acc
    ELSE LET t == ElementTypeOfName(text[i].word)
             m == parse_int(text[i + 1])
             k == node_count(t)
             at(r, j) == text[i + 1 + (r - 1) * (k + 1) + j]
         IN parse_sections(text, i + 2 + m * (k + 1),
               Append(acc,
                  [element_type |-> t,
                   nodes |-> [p \in 1..(m * k) |->
                                 parse_int(at(((p - 1) \div k) + 1, ((p - 1) % k) + 1)) - 1],
                   refs |-> [r \in 1..m |-> parse_int(at(r, k + 1))]]))

\* str::parse::<Mesh>
mesh_parse(text) ==
    LET d == parse_int(text[4])
        n == parse_int(text[6])
        at(i, j) == text[6 + (i - 1) * (d + 1) + j]
    IN [dimension |-> d,
        coordinates |-> [p \in 1..(n * d) |->
                            parse_f64(at(((p - 1) \div d) + 1, ((p - 1) % d) + 1))],
        node_refs |-> [i \in 1..n |-> parse_int(at(i, d + 1))],
        topology |-> parse_sections(text, 7 + n * (d + 1), <<>>)]

\* the meshes whose texts are parsed: every vertex i takes its coordinates
\* and its reference from MdCoordSeq and MdRefSeq, starting at choice[i]
MdMesh(d, choice, secs) ==
    LET n == Len(choice)
        pick(c) == ((c - 1) % Len(MdCoordSeq)) + 1
    IN [dimension |-> d,
        coordinates |-> [p \in 1..(n * d) |->
                            MdCoordSeq[pick(choice[((p - 1) \div d) + 1] + ((p - 1) % d))]],
        node_refs |-> [i \in 1..n |-> MdRefSeq[choice[i]]],
        topology |-> [s \in DOMAIN secs |->
                        [element_type |-> secs[s][1],
                         nodes |-> [p \in 1..(secs[s][2] * node_count(secs[s][1])) |->
                                       (p + s) % n],
                         refs |-> [r \in 1..secs[s][2] |-> r + s]]]]

MdMeshes ==
    {MdMesh(d, choice, secs) :
        d \in MdDimensions,
        choice \in UNION {[1..n -> DOMAIN MdCoordSeq] : n \in 1..MaxMdNodes},
        secs \in SeqsUpTo(MdElementTypes \X MdElementCounts, MaxMdSections)}

\* input.parse::<Mesh>()
medit_parse ==
    /\ mdPc = "text"
    /\ mdMesh' = mesh_parse(mdText)
    /\ mdPc' = "parsed"
    /\ UNCHANGED <<points, weights, nextPid, mdText, mdOut, compVars, mjVars, pfVars,
                   zVars, encVars, hiVars, infVars, kmVars, anVars, spVars>>

\* .to_string()
medit_to_string ==
    /\ mdPc = "parsed"
    /\ mdOut' = mesh_fmt(mdMesh)
    /\ mdPc' = "written"
    /\ UNCHANGED <<points, weights, nextPid, mdText, mdMesh, compVars, mjVars, pfVars,
                   zVars, encVars, hiVars, infVars, kmVars, anVars, spVars>>

InitMd ==
    /\ points = <<>>
    /\ weights = <<>>
    /\ nextPid = 0
    /\ CompIdle
    /\ MjIdle
    /\ PfIdle
    /\ ZIdle
    /\ EncIdle
    /\ HiIdle
    /\ InfIdle
    /\ KmIdle
    /\ AnIdle
    /\ SpIdle
    /\ mdText \in {mesh_fmt(m) : m \in MdMeshes}
    /\ mdMesh = NoMesh
    /\ mdOut = <<>>
    /\ mdPc = "text"

NextMd ==
    \/ medit_parse
    \/ medit_to_string

SpecMd == InitMd /\ [][NextMd]_vars

(***************************************************************************)
(* C23: parsing a text of the serializer's layout and writing the parsed   *)
(* mesh with Display gives the text back token by token, white space       *)
(* included; the element nodes are stored 0-based and written 1-based,     *)
(* and dimension, vertices, sections and references keep their order.      *)
(***************************************************************************)
C23_MeditAsciiRoundTrip ==
    mdPc = "written" =>
       /\ mdOut = mdText
       /\ \A s \in DOMAIN mdMesh.topology :
             \A p \in DOMAIN mdMesh.topology[s].nodes :
                mdMesh.topology[s].nodes[p] \in 0..(Len(mdMesh.node_refs) - 1)

\* two vertices in dimension 3, a section of two triangles after a section
\* of edges, a node stored as 0 and the coordinate -0.2
C23_Witness ==
    /\ mdPc = "written"
    /\ mdMesh.dimension = 3
    /\ Len(mdMesh.node_refs) = 2
    /\ Len(mdMesh.topology) = 2
    /\ mdMesh.topology[1].element_type = "Edge"
    /\ mdMesh.topology[2].element_type = "Triangle"
    /\ Len(mdMesh.topology[2].refs) = 2
    /\ mdMesh.topology[2].nodes[2] = 0
    /\ mdMesh.coordinates[1] = [neg |-> TRUE, mag |-> <<1, 5>>]
    /\ mdOut = mdText

====
